---------------------------- MODULE Spec2Model ----------------------------
(***************************************************************************)
(* A model of fac-cli: the argument dispatcher (fac.py), the configuration *)
(* resolver (config.py), the Airtable source (sources/airtable.py), the    *)
(* `gr` command (commands/gr.py) and the terminal display (display.py).    *)
(*                                                                         *)
(* Strings the program inspects (URLs, environment values, field names)    *)
(* are sequences of one-character strings, so startswith, replace, split,  *)
(* strip, lower and slicing are computed character by character.  A fixed  *)
(* message literal is kept as one chunk of such a sequence; a printed line *)
(* is the sequence of its chunks.                                          *)
(* An optional value (Python's None or a value) is <<>> or <<value>>.      *)
(***************************************************************************)
EXTENDS Integers, Sequences, FiniteSets, TLC

VARIABLES
    argv,           \* sys.argv
    env,            \* the process environment as os.getenv sees it
    pc,             \* the position of the single thread of control
    command,        \* parse's result: the command
    cmdArgs,        \* parse's result: the remaining arguments
    stdout,         \* lines printed to standard output
    stderr,         \* lines printed to the error stream
    exc,            \* the exception in flight inside dispatch's try block
    propagated,     \* the exception that left dispatch uncaught, if any
    exitCode,       \* the process's exit code once it has ended
    requests,       \* the HTTP GETs issued so far
    validateCalls,  \* how many times config.validate was entered
    cfg,            \* the mapping the last config.validate returned
    interrupted,    \* a user interrupt was delivered
    apiUrl,         \* airtable.get's api_url
    response,       \* the response object request returned
    data,           \* gr.run's data (the extracted records)
    processed,      \* gr.run's processed
    fnIn,           \* the argument of a function applied on its own
    fnOut           \* its outcome

vars == <<argv, env, pc, command, cmdArgs, stdout, stderr, exc, propagated,
          exitCode, requests, validateCalls, cfg, interrupted, apiUrl,
          response, data, processed, fnIn, fnOut>>

None == <<>>
Some(v) == <<v>>

---------------------------------------------------------------------------
(* Python's str operations, on sequences of characters.                    *)

\* s.startswith(p)
StartsWith(s, p) == Len(s) >= Len(p) /\ SubSeq(s, 1, Len(p)) = p

\* s[n:], 0-based n
DropFirst(s, n) == SubSeq(s, n + 1, Len(s))

\* s[:n]
TakeFirst(s, n) == SubSeq(s, 1, IF Len(s) < n THEN Len(s) ELSE n)

\* The positions at which old occurs in s, 0-based as s.find gives them.
Occurrences(s, old) ==
    {i \in 0..(Len(s) - Len(old)) : SubSeq(s, i + 1, i + Len(old)) = old}

\* `old in s` (used to state properties; convert_url itself never tests it)
Contains(s, old) == Occurrences(s, old) # {}

\* s.replace(old, "") for a non-empty old: the non-overlapping occurrences,
\* found from the left, are removed.  The text up to the leftmost occurrence
\* is kept, the occurrence dropped, and the search goes on after it.
RECURSIVE RemoveAll(_, _)
RemoveAll(s, old) ==
    IF Occurrences(s, old) = {} THEN s
    ELSE LET first == CHOOSE i \in Occurrences(s, old) :
                          \A j \in Occurrences(s, old) : i <= j
         IN  SubSeq(s, 1, first) \o RemoveAll(DropFirst(s, first + Len(old)), old)

\* s.split(sep) for a one-character sep: "".split(",") is [""].  The k-th
\* piece lies between the (k-1)-th and the k-th separator.
Split(s, sep) ==
    LET seps == {i \in 1..Len(s) : s[i] = sep}
        n == Cardinality(seps)
        pos(k) == IF k = 0 THEN 0
                  ELSE IF k = n + 1 THEN Len(s) + 1
                  ELSE CHOOSE p \in seps : Cardinality({q \in seps : q < p}) = k - 1
    IN  [k \in 1..(n + 1) |-> SubSeq(s, pos(k - 1) + 1, pos(k) - 1)]

IsSpace(c) == c \in {" ", "\t", "\n"}

RECURSIVE LStrip(_)
LStrip(s) == IF s # <<>> /\ IsSpace(Head(s)) THEN LStrip(Tail(s)) ELSE s

RECURSIVE RStrip(_)
RStrip(s) ==
    IF s # <<>> /\ IsSpace(s[Len(s)]) THEN RStrip(SubSeq(s, 1, Len(s) - 1)) ELSE s

\* s.strip()
Strip(s) == RStrip(LStrip(s))

UpperCase == <<"A","B","C","D","E","F","G","H","I","J","K","L","M",
               "N","O","P","Q","R","S","T","U","V","W","X","Y","Z">>
LowerCase == <<"a","b","c","d","e","f","g","h","i","j","k","l","m",
               "n","o","p","q","r","s","t","u","v","w","x","y","z">>

LowerChar(c) ==
    IF \E i \in 1..Len(UpperCase) : UpperCase[i] = c
    THEN LowerCase[CHOOSE i \in 1..Len(UpperCase) : UpperCase[i] = c]
    ELSE c

\* s.lower()
Lower(s) == [i \in 1..Len(s) |-> LowerChar(s[i])]

\* sep.join(parts)
RECURSIVE JoinWith(_, _)
JoinWith(parts, sep) ==
    IF parts = <<>> THEN <<>>
    ELSE IF Len(parts) = 1 THEN parts[1]
    ELSE parts[1] \o sep \o JoinWith(Tail(parts), sep)

---------------------------------------------------------------------------
(* Literals of the program.                                                *)

ApiPrefix == <<"h","t","t","p","s",":","/","/","a","p","i",".","a","i","r","t","a","b","l","e",".","c","o","m","/">>
HumanPrefix == <<"h","t","t","p","s",":","/","/","a","i","r","t","a","b","l","e",".","c","o","m","/">>
DefaultColumns == <<"N","a","m","e",",","E","m","a","i","l",",","S","t","a","t","u","s",",","D","a","t","e">>
DefaultHeaders == <<"S","t","u","d","e","n","t"," ","N","a","m","e",",","E","m","a","i","l"," ","A","d","d","r","e","s","s",",","C","u","r","r","e","n","t"," ","S","t","a","t","u","s",",","L","a","s","t"," ","U","p","d","a","t","e","d">>
TrueStr == <<"t","r","u","e">>
FalseStr == <<"f","a","l","s","e">>
FamilyName == <<"F","a","m","i","l","y"," ","n","a","m","e">>

Digits == <<"0","1","2","3","4","5","6","7","8","9">>

\* str(n) for a natural number n
RECURSIVE IntStr(_)
IntStr(n) ==
    IF n < 10 THEN <<Digits[n + 1]>>
    ELSE IntStr(n \div 10) \o <<Digits[(n % 10) + 1]>>

---------------------------------------------------------------------------
(* The outcome of a call: it returns val, or it raises exc; a fatal helper *)
(* prints the lines err to the error stream and raises SystemExit.         *)

NoExc == [kind |-> "none", code |-> 0, msg |-> <<>>]
SystemExit(c) == [kind |-> "SystemExit", code |-> c, msg |-> <<>>]
KeyboardInterrupt == [kind |-> "KeyboardInterrupt", code |-> 0, msg |-> <<>>]
TypeError(m) == [kind |-> "TypeError", code |-> 0, msg |-> m]

\* The classes `except Exception` catches; SystemExit and KeyboardInterrupt
\* derive from BaseException only.
IsException(x) == x.kind \in {"TypeError"}

Return(v) == [ok |-> TRUE, val |-> Some(v), err |-> <<>>, exc |-> NoExc]
Exit(lines, c) == [ok |-> FALSE, val |-> None, err |-> lines, exc |-> SystemExit(c)]
Raise(x) == [ok |-> FALSE, val |-> None, err |-> <<>>, exc |-> x]

---------------------------------------------------------------------------
(* config.py                                                               *)

EnvKeys == {"AIRTABLE_API_KEY", "AIRTABLE_VIEW_URL", "GR_COLUMNS",
            "GR_HEADERS", "FAC_CLI_DEBUG"}

RequiredVars == <<"AIRTABLE_API_KEY", "AIRTABLE_VIEW_URL">>

\* `os.getenv(key) or default`: an empty value gives way to the default.
ConfigGetOrDefault(e, key, default) ==
    IF e[key] = None \/ e[key] = Some(<<>>) THEN default ELSE e[key]

\* config.get: os.getenv(key, default), both optional values
ConfigGet(e, key, default) == IF e[key] = None THEN default ELSE e[key]

\* config.error(message): two lines on the error stream, then sys.exit(1)
ConfigError(message) ==
    Exit(<< <<"Error: ">> \o message,
            <<"Tip: Copy .env.example to .env and add your credentials">> >>, 1)

\* The test `value is None` in place of `not value`.
FalsyOnlyNone(value) == value = None

\* `not value` for an optional string: None or ""
Falsy(value) == value = None \/ value = Some(<<>>)

\* config.require(key)
Require(e, key) ==
    LET value == ConfigGet(e, key, None)
    IN  IF Falsy(value)
        THEN ConfigError(<<"Required environment variable ", key, " not set">>)
        ELSE Return(value[1])

\* validate's debug flag: get("FAC_CLI_DEBUG", "false").lower() == "true"
DebugFlag(e) == Lower(ConfigGet(e, "FAC_CLI_DEBUG", Some(FalseStr))[1]) = TrueStr

\* config.validate(): the first required variable that is missing ends the
\* process; otherwise the five-key mapping is returned.  load() comes first:
\* e is the environment as os.getenv answers once the optional .env file has
\* been read.
Validate(e) ==
    LET missing == SelectSeq(RequiredVars, LAMBDA k : ~Require(e, k).ok)
    IN  IF missing # <<>> THEN Require(e, missing[1])
        ELSE Return(
          [AIRTABLE_API_KEY  |-> Require(e, "AIRTABLE_API_KEY").val[1],
           AIRTABLE_VIEW_URL |-> Require(e, "AIRTABLE_VIEW_URL").val[1],
           GR_COLUMNS        |-> ConfigGet(e, "GR_COLUMNS", Some(DefaultColumns))[1],
           GR_HEADERS        |-> ConfigGet(e, "GR_HEADERS", Some(DefaultHeaders))[1],
           FAC_CLI_DEBUG     |-> DebugFlag(e)])

---------------------------------------------------------------------------
(* sources/airtable.py                                                     *)

\* airtable.error printing the tip of config.error after the message.
AirtableErrorWithTip(message) ==
    Exit(<< <<"Error: ">> \o message,
            <<"Tip: Copy .env.example to .env and add your credentials">> >>, 1)

\* airtable.error(message): one line on the error stream, then sys.exit(1)
AirtableError(message) == Exit(<< <<"Error: ">> \o message >>, 1)

\* airtable.auth(api_key)
Auth(api_key) ==
    [Authorization |-> <<"B","e","a","r","e","r"," ">> \o api_key,
     ContentType   |-> "application/json"]

\* convert_url's parts: the host prefix is removed wherever it occurs, and
\* what is left is split on "/".
UrlParts(url) == Split(RemoveAll(url, HumanPrefix), "/")

\* The view taken from the last segment instead of the third.
ViewIdLast(parts) == parts[Len(parts)]

AppId(parts) == parts[1]
TableId(parts) == parts[2]
ViewId(parts) == parts[3]

\* convert_url without the early return for a URL already in the API form.
ConvertUrlNoApiBranch(url) ==
    IF ~StartsWith(url, HumanPrefix)
    THEN AirtableError(<<"Invalid Airtable URL. Expected format: https://airtable.com/appXXXXX/tblXXXXX/viwXXXXX">>)
    ELSE LET parts == UrlParts(url)
         IN  IF Len(parts) < 3
             THEN AirtableError(<<"Invalid Airtable URL format. Expected: https://airtable.com/appXXXXX/tblXXXXX/viwXXXXX">>)
             ELSE IF ~(  StartsWith(AppId(parts), <<"a","p","p">>)
                      /\ StartsWith(TableId(parts), <<"t","b","l">>)
                      /\ StartsWith(ViewId(parts), <<"v","i","w">>))
             THEN AirtableError(<<"Invalid Airtable URL components. Expected appXXXXX/tblXXXXX/viwXXXXX format">>)
             ELSE Return(ApiPrefix \o <<"v","0","/">> \o AppId(parts) \o <<"/">>
                         \o TableId(parts) \o <<"?","v","i","e","w","=">>
                         \o ViewId(parts))

\* convert_url building the result on the human-facing host.
ConvertUrlHumanBase(url) ==
    IF StartsWith(url, ApiPrefix) THEN Return(url)
    ELSE IF ~StartsWith(url, HumanPrefix)
    THEN AirtableError(<<"Invalid Airtable URL. Expected format: https://airtable.com/appXXXXX/tblXXXXX/viwXXXXX">>)
    ELSE LET parts == UrlParts(url)
         IN  IF Len(parts) < 3
             THEN AirtableError(<<"Invalid Airtable URL format. Expected: https://airtable.com/appXXXXX/tblXXXXX/viwXXXXX">>)
             ELSE IF ~(  StartsWith(AppId(parts), <<"a","p","p">>)
                      /\ StartsWith(TableId(parts), <<"t","b","l">>)
                      /\ StartsWith(ViewId(parts), <<"v","i","w">>))
             THEN AirtableError(<<"Invalid Airtable URL components. Expected appXXXXX/tblXXXXX/viwXXXXX format">>)
             ELSE Return(HumanPrefix \o <<"v","0","/">> \o AppId(parts) \o <<"/">>
                         \o TableId(parts) \o <<"?","v","i","e","w","=">>
                         \o ViewId(parts))

\* airtable.convert_url(url)
ConvertUrl(url) ==
    IF StartsWith(url, ApiPrefix) THEN Return(url)
    ELSE IF ~StartsWith(url, HumanPrefix)
    THEN AirtableError(<<"Invalid Airtable URL. Expected format: https://airtable.com/appXXXXX/tblXXXXX/viwXXXXX">>)
    ELSE LET parts == UrlParts(url)
         IN  IF Len(parts) < 3
             THEN AirtableError(<<"Invalid Airtable URL format. Expected: https://airtable.com/appXXXXX/tblXXXXX/viwXXXXX">>)
             ELSE IF ~(  StartsWith(AppId(parts), <<"a","p","p">>)
                      /\ StartsWith(TableId(parts), <<"t","b","l">>)
                      /\ StartsWith(ViewId(parts), <<"v","i","w">>))
             THEN AirtableError(<<"Invalid Airtable URL components. Expected appXXXXX/tblXXXXX/viwXXXXX format">>)
             ELSE Return(ApiPrefix \o <<"v","0","/">> \o AppId(parts) \o <<"/">>
                         \o TableId(parts) \o <<"?","v","i","e","w","=">>
                         \o ViewId(parts))

\* extract leaving the loop (break) at the first element without `fields`.
RECURSIVE ExtractUntilMissing(_)
ExtractUntilMissing(records) ==
    IF records = <<>> \/ ~Head(records).hasFields THEN <<>>
    ELSE <<Head(records).fields>> \o ExtractUntilMissing(Tail(records))

\* airtable.extract(records): the fields of each element that has them
Extract(records) ==
    LET withFields == SelectSeq(records, LAMBDA r : r.hasFields)
    IN  [i \in 1..Len(withFields) |-> withFields[i].fields]

---------------------------------------------------------------------------
(* JSON values of a record: a string, null, a number (kept as its decimal  *)
(* text) or a list of values.  A record is a function from field names to  *)
(* values.                                                                 *)

VStr(s) == [t |-> "str", s |-> s, l |-> <<>>]
VNull == [t |-> "null", s |-> <<>>, l |-> <<>>]
VInt(n) == [t |-> "int", s |-> IntStr(n), l |-> <<>>]
VList(l) == [t |-> "list", s |-> <<>>, l |-> l]

\* repr(v): a string is quoted, a list shows the repr of its elements
RECURSIVE PyRepr(_)
PyRepr(v) ==
    CASE v.t = "str"  -> <<"'">> \o v.s \o <<"'">>
      [] v.t = "null" -> <<"N","o","n","e">>
      [] v.t = "int"  -> v.s
      [] v.t = "list" ->
            <<"[">> \o JoinWith([i \in 1..Len(v.l) |-> PyRepr(v.l[i])], <<",", " ">>)
                    \o <<"]">>

\* str(v)
PyStr(v) == IF v.t = "str" THEN v.s ELSE PyRepr(v)

---------------------------------------------------------------------------
(* commands/gr.py                                                          *)

\* flatten_array_value without the `is not None` test: str(None) comes out.
FlattenArrayValueStrNone(value) ==
    IF value.t = "list"
    THEN IF Len(value.l) > 0 THEN PyStr(value.l[1]) ELSE <<>>
    ELSE PyStr(value)

\* gr.flatten_array_value(value)
FlattenArrayValue(value) ==
    IF value.t = "list"
    THEN IF Len(value.l) > 0 THEN PyStr(value.l[1]) ELSE <<>>
    ELSE IF value.t # "null" THEN PyStr(value) ELSE <<>>

\* abbreviate_name cutting at three characters.
AbbreviateNameThree(name) == TakeFirst(name, 3)

\* gr.abbreviate_name(name): name[:4]
AbbreviateName(name) == TakeFirst(name, 4)

\* The loop body abbreviating str(value) without flatten_array_value.
ProcessRecordNoFlatten(record) ==
    IF FamilyName \in DOMAIN record
    THEN [record EXCEPT ![FamilyName] = VStr(AbbreviateName(PyStr(record[FamilyName])))]
    ELSE record

\* The body of process's loop, for one record.
ProcessRecord(record) ==
    IF FamilyName \in DOMAIN record
    THEN [record EXCEPT
            ![FamilyName] = VStr(AbbreviateName(FlattenArrayValue(record[FamilyName])))]
    ELSE record

\* gr.process(data), data an optional list (None or a list of records)
Process(d) ==
    IF d = None \/ d[1] = <<>> THEN <<>>
    ELSE [i \in 1..Len(d[1]) |-> ProcessRecord(d[1][i])]

\* process on objects: heap is the sequence of the dict objects that exist,
\* a reference is an index into it, and a list is a sequence of references.

\* processed_record = record with no .copy(): the same object.
RecordAlias(heap, ref) == [heap |-> heap, ref |-> ref]

\* record.copy(): a new object with the same keys and values
RecordCopy(heap, ref) == [heap |-> Append(heap, heap[ref]), ref |-> Len(heap) + 1]

\* process's loop: each record is copied, the copy's `Family name` is
\* assigned, and the copy is appended to the result.
RECURSIVE ProcessLoop(_, _, _)
ProcessLoop(heap, refs, out) ==
    IF refs = <<>> THEN [heap |-> heap, result |-> out]
    ELSE LET c == RecordCopy(heap, Head(refs))
             written == [c.heap EXCEPT ![c.ref] = ProcessRecord(c.heap[c.ref])]
         IN  ProcessLoop(written, Tail(refs), Append(out, c.ref))

\* gr.process(data) on objects: the heap it leaves and the list it returns
ProcessObjects(heap, d) ==
    IF d = None \/ d[1] = <<>> THEN [heap |-> heap, result |-> <<>>]
    ELSE ProcessLoop(heap, d[1], <<>>)

\* [x.strip() for x in s.split(",") if x.strip()]
ParseList(s) ==
    LET stripped == [i \in 1..Len(Split(s, ",")) |-> Strip(Split(s, ",")[i])]
    IN  SelectSeq(stripped, LAMBDA x : x # <<>>)

\* gr.parse_columns(columns_str)
ParseColumns(columns_str) == ParseList(columns_str)

\* gr.parse_headers(headers_str)
ParseHeaders(headers_str) == ParseList(headers_str)

---------------------------------------------------------------------------
(* display.py                                                              *)

\* display.error(message): print_error's line, then sys.exit(1).  The chunk
\* "(U+2717) " stands for the cross mark and the space print_error prefixes.
DisplayError(message) == Exit(<< <<"(U+2717) ">> \o message >>, 1)

\* The cell truncated from 50 characters on (>= in place of >).
FormatCellFrom50(row, column) ==
    LET value == IF column \in DOMAIN row THEN row[column] ELSE VStr(<<>>)
        str_value == IF value.t # "null" THEN PyStr(value) ELSE <<>>
    IN  IF Len(str_value) >= 50
        THEN TakeFirst(str_value, 47) \o <<".", ".", ".">>
        ELSE str_value

\* The cell without the `is not None` test: str(None) comes out.
FormatCellStrNone(row, column) ==
    LET value == IF column \in DOMAIN row THEN row[column] ELSE VStr(<<>>)
        str_value == PyStr(value)
    IN  IF Len(str_value) > 50
        THEN TakeFirst(str_value, 47) \o <<".", ".", ".">>
        ELSE str_value

\* One cell of format: the value looked up, stringified and truncated.
FormatCell(row, column) ==
    LET value == IF column \in DOMAIN row THEN row[column] ELSE VStr(<<>>)
        str_value == IF value.t # "null" THEN PyStr(value) ELSE <<>>
    IN  IF Len(str_value) > 50
        THEN TakeFirst(str_value, 47) \o <<".", ".", ".">>
        ELSE str_value

\* format with the count check inside the loop over the rows.
FormatCheckPerRow(rows, columns, headers) ==
    IF rows # <<>> /\ Len(columns) # Len(headers)
    THEN DisplayError(<<"Columns (">> \o IntStr(Len(columns)) \o <<") and headers (">>
                      \o IntStr(Len(headers)) \o <<") count mismatch">>)
    ELSE Return([i \in 1..Len(rows) |->
                    [j \in 1..Len(columns) |-> FormatCell(rows[i], columns[j])]])

\* display.format(data, columns, headers)
Format(rows, columns, headers) ==
    IF Len(columns) # Len(headers)
    THEN DisplayError(<<"Columns (">> \o IntStr(Len(columns)) \o <<") and headers (">>
                      \o IntStr(Len(headers)) \o <<") count mismatch">>)
    ELSE Return([i \in 1..Len(rows) |->
                    [j \in 1..Len(columns) |-> FormatCell(rows[i], columns[j])]])

\* tabulate(data, headers=headers, tablefmt="grid"): the library's text, kept
\* as the headers and the cells it draws, in order.
RECURSIVE TabulateRows(_)
TabulateRows(rows) ==
    IF rows = <<>> THEN <<>>
    ELSE <<"+row+">> \o JoinWith(Head(rows), <<"|">>) \o TabulateRows(Tail(rows))

Tabulate(rows, headers) ==
    <<"+grid+">> \o JoinWith(headers, <<"|">>) \o TabulateRows(rows)

\* table without the `if not data` guard: the renderer gets the empty list.
TableNoEmptyGuard(rows, headers, renders) ==
    IF renders THEN Return(Tabulate(rows, headers))
    ELSE DisplayError(<<"Error formatting table: ", "tabulate failed">>)

\* display.table(data, headers): renders is whether tabulate returns (TRUE)
\* or raises (FALSE).
Table(rows, headers, renders) ==
    IF rows = <<>> THEN Return(<<"No data to display">>)
    ELSE IF renders THEN Return(Tabulate(rows, headers))
    ELSE DisplayError(<<"Error formatting table: ", "tabulate failed">>)

\* print_table calling format before the test for empty data.
PrintTableFormatFirst(rows, columns, headers, renders) ==
    LET formatted == Format(rows, columns, headers)
    IN  IF ~formatted.ok THEN formatted
        ELSE IF rows = <<>> THEN Return(<< <<"No data available">> >>)
        ELSE LET table_output == Table(formatted.val[1], headers, renders)
             IN  IF ~table_output.ok THEN table_output
                 ELSE Return(<< table_output.val[1] >>)

\* print_table without the early return for empty data.
PrintTableNoEarlyReturn(rows, columns, headers, renders) ==
    LET formatted == Format(rows, columns, headers)
    IN  IF ~formatted.ok THEN formatted
        ELSE LET table_output == Table(formatted.val[1], headers, renders)
             IN  IF ~table_output.ok THEN table_output
                 ELSE Return(<< table_output.val[1] >>)

\* display.print_table(data, columns, headers): the lines it prints to
\* standard output when it returns.
PrintTable(rows, columns, headers, renders) ==
    IF rows = <<>> THEN Return(<< <<"No data available">> >>)
    ELSE LET formatted == Format(rows, columns, headers)
         IN  IF ~formatted.ok THEN formatted
             ELSE LET table_output == Table(formatted.val[1], headers, renders)
                  IN  IF ~table_output.ok THEN table_output
                      ELSE Return(<< table_output.val[1] >>)

---------------------------------------------------------------------------
(* sources/airtable.py: the request and the response                       *)

\* What requests.get can do once the GET is sent: raise Timeout,
\* ConnectionError, some other exception or KeyboardInterrupt, or hand back
\* a response with a status, a body text and, when the text is valid JSON,
\* the parsed document.
Outcome(kind, status, text, json) ==
    [kind |-> kind, status |-> status, text |-> text, json |-> json]

\* response.raise_for_status() raises HTTPError for 4xx and 5xx.
RaisesForStatus(status) == status >= 400 /\ status < 600

\* request without the elif for status 429: it falls to the else branch.
RequestNo429(o) ==
    CASE o.kind = "Timeout" ->
            AirtableError(<<"Request timed out. Check your internet connection.">>)
      [] o.kind = "ConnectionError" ->
            AirtableError(<<"Unable to connect to Airtable. Check your internet connection.">>)
      [] o.kind = "KeyboardInterrupt" -> Raise(KeyboardInterrupt)
      [] o.kind = "Other" ->
            AirtableError(<<"Unexpected error connecting to Airtable: ", o.text>>)
      [] o.kind = "Response" ->
            IF ~RaisesForStatus(o.status) THEN Return(o)
            ELSE IF o.status = 401
            THEN AirtableError(<<"Invalid Airtable API key. Check your credentials in .env file.">>)
            ELSE IF o.status = 404
            THEN AirtableError(<<"Airtable view not found. Check your AIRTABLE_VIEW_URL in .env file.">>)
            ELSE AirtableError(<<"Airtable API error: ">> \o IntStr(o.status)
                               \o <<" - ", o.text>>)

\* airtable.request(url, headers) once requests.get has ended in outcome o
Request(o) ==
    CASE o.kind = "Timeout" ->
            AirtableError(<<"Request timed out. Check your internet connection.">>)
      [] o.kind = "ConnectionError" ->
            AirtableError(<<"Unable to connect to Airtable. Check your internet connection.">>)
      [] o.kind = "KeyboardInterrupt" -> Raise(KeyboardInterrupt)
      [] o.kind = "Other" ->
            AirtableError(<<"Unexpected error connecting to Airtable: ", o.text>>)
      [] o.kind = "Response" ->
            IF ~RaisesForStatus(o.status) THEN Return(o)
            ELSE IF o.status = 401
            THEN AirtableError(<<"Invalid Airtable API key. Check your credentials in .env file.">>)
            ELSE IF o.status = 404
            THEN AirtableError(<<"Airtable view not found. Check your AIRTABLE_VIEW_URL in .env file.">>)
            ELSE IF o.status = 429
            THEN AirtableError(<<"Airtable API rate limit exceeded. Please try again later.">>)
            ELSE AirtableError(<<"Airtable API error: ">> \o IntStr(o.status)
                               \o <<" - ", o.text>>)

\* airtable.get before the request: the credentials check and convert_url
GetApiUrl(api_key, view_url) ==
    IF api_key = <<>> \/ view_url = <<>>
    THEN AirtableError(<<"Airtable API key and view URL are required">>)
    ELSE ConvertUrl(view_url)

\* A parsed JSON document: a scalar, an array (hasRecords: the string
\* "records" is one of its elements), or an object that may hold `records`,
\* which is a list of elements or null.
JsonScalar == [k |-> "scalar", hasRecords |-> FALSE, isList |-> FALSE, elems |-> <<>>]
JsonArray(hasRecords) ==
    [k |-> "array", hasRecords |-> hasRecords, isList |-> FALSE, elems |-> <<>>]
JsonObject(hasRecords, isList, elems) ==
    [k |-> "object", hasRecords |-> hasRecords, isList |-> isList, elems |-> elems]

\* airtable.get reading the list with data.get("records", []).
GetRecordsOrEmpty(resp) ==
    IF resp.json = None
    THEN AirtableError(<<"Invalid response from Airtable API. Expected JSON.">>)
    ELSE LET doc == resp.json[1]
         IN  IF doc.k # "object"
             THEN Raise(TypeError(<<"object has no attribute 'get'">>))
             ELSE IF ~doc.hasRecords
             THEN Return(<<>>)
             ELSE IF ~doc.isList
             THEN Raise(TypeError(<<"'NoneType' object is not iterable">>))
             ELSE Return(Extract(doc.elems))

\* airtable.get after the request: response.json(), the `records` check
\* and extract
GetRecords(resp) ==
    IF resp.json = None
    THEN AirtableError(<<"Invalid response from Airtable API. Expected JSON.">>)
    ELSE LET doc == resp.json[1]
         IN  IF doc.k = "scalar"
             THEN Raise(TypeError(<<"argument of type 'int' is not iterable">>))
             ELSE IF ~doc.hasRecords
             THEN AirtableError(<<"Unexpected response format from Airtable. Missing 'records' field.">>)
             ELSE IF doc.k = "array"
             THEN Raise(TypeError(<<"list indices must be integers or slices, not str">>))
             ELSE IF ~doc.isList
             THEN Raise(TypeError(<<"'NoneType' object is not iterable">>))
             ELSE Return(Extract(doc.elems))

---------------------------------------------------------------------------
(* fac.py                                                                  *)

\* The help commands without the short flag.
HelpCommandsNoShort == {"help", "--help"}

HelpCommands == {"help", "--help", "-h"}
Commands == {"gr"}

HelpText == <<"FAC CLI - Founders and Coders Training Operations ... For more information, see README.md">>

\* fac.parse(args)
Parse(args) ==
    IF Len(args) < 2 THEN [command |-> "help", remaining |-> <<>>]
    ELSE [command |-> args[2],
          remaining |-> IF Len(args) > 2 THEN SubSeq(args, 3, Len(args)) ELSE <<>>]

\* show_error ending with the usage-error code 2.
ShowErrorExit2(message) ==
    [ok |-> FALSE, val |-> None,
     err |-> << <<"Error: ">> \o message,
                <<"Use './fac.py help' for usage information">> >>,
     exc |-> [kind |-> "SystemExit", code |-> 2, msg |-> <<>>]]

\* show_error without the usage hint.
ShowErrorNoHint(message) ==
    [ok |-> FALSE, val |-> None, err |-> << <<"Error: ">> \o message >>,
     exc |-> [kind |-> "SystemExit", code |-> 1, msg |-> <<>>]]

\* fac.show_error(message): two lines on the error stream, then sys.exit(1)
ShowError(message) ==
    Exit(<< <<"Error: ">> \o message,
            <<"Use './fac.py help' for usage information">> >>, 1)

\* The debug test without .lower().
DispatchDebugCaseSensitive(e) ==
    ConfigGet(e, "FAC_CLI_DEBUG", Some(FalseStr))[1] = TrueStr

\* dispatch's debug test: config.get("FAC_CLI_DEBUG", "false").lower() == "true"
DispatchDebug(e) == Lower(ConfigGet(e, "FAC_CLI_DEBUG", Some(FalseStr))[1]) = TrueStr

\* The except clauses without the KeyboardInterrupt clause of their own:
\* a bare `except:` that treats the interrupt like any other error.
DispatchHandlerNoInterruptClause(e, x) ==
    IF x.kind = "KeyboardInterrupt" \/ IsException(x)
    THEN IF DispatchDebug(e) THEN Raise(x)
         ELSE Exit(<< <<"Error: ">> \o x.msg >>, 1)
    ELSE Raise(x)

\* The except clauses with `except BaseException` for the generic one:
\* SystemExit is handled like any other error.
DispatchHandlerCatchesExit(e, x) ==
    IF x.kind = "KeyboardInterrupt"
    THEN Exit(<< <<"\nOperation cancelled by user">> >>, 130)
    ELSE IF DispatchDebug(e) THEN Raise(x)
    ELSE Exit(<< <<"Error: ">> \o x.msg >>, 1)

\* dispatch's except clauses, applied to the exception x raised in the try
\* block: the lines written to the error stream and the exception that
\* leaves dispatch.
DispatchHandler(e, x) ==
    IF x.kind = "KeyboardInterrupt"
    THEN Exit(<< <<"\nOperation cancelled by user">> >>, 130)
    ELSE IF IsException(x)
    THEN IF DispatchDebug(e) THEN Raise(x)
         ELSE Exit(<< <<"Error: ">> \o x.msg >>, 1)
    ELSE Raise(x)

---------------------------------------------------------------------------
(* The inputs of a run: argv, the environment, and what the network and    *)
(* the table renderer do.                                                  *)

MaxRecords == 2

SeqsUpTo(S, n) == UNION {[1..k -> S] : k \in 0..n}

ArgvValues ==
    { <<>>, <<"fac.py">>, <<"fac.py", "help">>, <<"fac.py", "--help">>,
      <<"fac.py", "-h">>, <<"fac.py", "gr">>, <<"fac.py", "gr", "--all">>,
      <<"fac.py", "status">>, <<"fac.py", "GR">>, <<"fac.py", "">> }

ApiKeyValues == {None, Some(<<>>), Some(<<"k","e","y">>)}

ViewUrlValues ==
    { None, Some(<<>>),
      Some(HumanPrefix \o <<"a","p","p","A","1","/","t","b","l","B","2","/","v","i","w","C","3">>),
      Some(HumanPrefix \o <<"a","p","p","A","1","/","t","b","l","B","2","/","v","i","w","C","3","/","x","?","y","=","1","/">>),
      Some(HumanPrefix \o <<"a","p","p","A","1","/","t","b","l","B","2">>),
      Some(HumanPrefix \o <<"a","p","p","A","1","/","t","b","l","B","2","/","V","i","w","C","3">>),
      Some(ApiPrefix \o <<"v","0","/","a","p","p","A","1","/","t","b","l","B","2","?","v","i","e","w","=","v","i","w","C","3">>),
      Some(<<"h","t","t","p",":","/","/","a","i","r","t","a","b","l","e",".","c","o","m","/","a","p","p","A","1","/","t","b","l","B","2","/","v","i","w","C","3">>),
      Some(HumanPrefix \o <<"a","p","p">> \o HumanPrefix \o <<"A","1","/","t","b","l","B","2","/","v","i","w","C","3">>) }

ColumnsValues == {None, Some(<<>>), Some(<<" ","N","a","m","e"," ",","," ","F","a","m","i","l","y"," ","n","a","m","e",",">>)}

HeadersValues == {None, Some(<<"W","h","o">>), Some(<<"W","h","o",",","F","a","m","i","l","y">>)}

DebugValues == {None, Some(<<"t","r","u","e">>), Some(<<"T","r","u","e">>), Some(<<"f","a","l","s","e">>)}

EnvValues ==
    [AIRTABLE_API_KEY : ApiKeyValues, AIRTABLE_VIEW_URL : ViewUrlValues,
     GR_COLUMNS : ColumnsValues, GR_HEADERS : HeadersValues,
     FAC_CLI_DEBUG : DebugValues]

NameKey == <<"N","a","m","e">>

Elements ==
    { [hasFields |-> FALSE, fields |-> <<>>],
      [hasFields |-> TRUE,
       fields |-> (FamilyName :> VList(<<VStr(<<"E","l","i","z","a","b","e","t","h">>)>>)) @@ (NameKey :> VStr(<<"A","l">>))],
      [hasFields |-> TRUE, fields |-> (NameKey :> VNull)] }

JsonDocs ==
    {JsonScalar, JsonArray(FALSE), JsonArray(TRUE),
     JsonObject(FALSE, FALSE, <<>>), JsonObject(TRUE, FALSE, <<>>)}
    \cup {JsonObject(TRUE, TRUE, els) : els \in SeqsUpTo(Elements, MaxRecords)}

ErrorStatuses == {401, 403, 404, 429, 500}

TransportOutcomes ==
    { Outcome("Timeout", 0, "", None), Outcome("ConnectionError", 0, "", None),
      Outcome("Other", 0, "Invalid header value", None),
      Outcome("KeyboardInterrupt", 0, "", None),
      Outcome("Response", 200, "<html>", None) }
    \cup {Outcome("Response", st, "{\"error\": \"...\"}", None) : st \in ErrorStatuses}
    \cup {Outcome("Response", 200, "{...}", Some(j)) : j \in JsonDocs}

---------------------------------------------------------------------------
(* The run of the program.                                                 *)

Init ==
    /\ argv \in ArgvValues
    /\ env \in EnvValues
    /\ pc = "route"
    /\ command = ""
    /\ cmdArgs = <<>>
    /\ stdout = <<>>
    /\ stderr = <<>>
    /\ exc = NoExc
    /\ propagated = None
    /\ exitCode = None
    /\ requests = <<>>
    /\ validateCalls = 0
    /\ cfg = None
    /\ interrupted = FALSE
    /\ apiUrl = None
    /\ response = None
    /\ data = <<>>
    /\ processed = <<>>
    /\ fnIn = None
    /\ fnOut = None

\* The positions inside dispatch's try block.
TryPcs == {"validate", "handler", "gr_run", "fetch", "airtable_get", "request",
           "parse", "process", "display", "success"}

\* A call inside the try block ended by raising: its lines reach the error
\* stream and its exception reaches dispatch's except clauses.
Raised(r) ==
    /\ stderr' = stderr \o r.err
    /\ exc' = r.exc
    /\ interrupted' = (interrupted \/ r.exc.kind = "KeyboardInterrupt")
    /\ pc' = "except"

\* fac.route: parse, then dispatch
Route ==
    /\ pc = "route"
    /\ command' = Parse(argv).command
    /\ cmdArgs' = Parse(argv).remaining
    /\ pc' = "dispatch"
    /\ UNCHANGED <<argv, env, stdout, stderr, exc, propagated, exitCode, requests,
                   validateCalls, cfg, interrupted, apiUrl, response, data,
                   processed, fnIn, fnOut>>

\* dispatch, a help command: show_help and return
DispatchHelp ==
    /\ pc = "dispatch"
    /\ command \in HelpCommands
    /\ stdout' = Append(stdout, HelpText)
    /\ pc' = "returned"
    /\ UNCHANGED <<argv, env, command, cmdArgs, stderr, exc, propagated, exitCode,
                   requests, validateCalls, cfg, interrupted, apiUrl, response,
                   data, processed, fnIn, fnOut>>

\* dispatch, a registered command: enter the try block
DispatchCommand ==
    /\ pc = "dispatch"
    /\ command \notin HelpCommands
    /\ command \in Commands
    /\ pc' = "validate"
    /\ UNCHANGED <<argv, env, command, cmdArgs, stdout, stderr, exc, propagated,
                   exitCode, requests, validateCalls, cfg, interrupted, apiUrl,
                   response, data, processed, fnIn, fnOut>>

\* dispatch, any other command: show_error, whose sys.exit no clause catches
DispatchUnknown ==
    /\ pc = "dispatch"
    /\ command \notin HelpCommands
    /\ command \notin Commands
    /\ LET r == ShowError(<<"Unknown command: ", command>>)
       IN  /\ stderr' = stderr \o r.err
           /\ propagated' = Some(r.exc)
    /\ pc' = "uncaught"
    /\ UNCHANGED <<argv, env, command, cmdArgs, stdout, exc, exitCode, requests,
                   validateCalls, cfg, interrupted, apiUrl, response, data,
                   processed, fnIn, fnOut>>

\* dispatch's config.validate()
TryValidate ==
    /\ pc = "validate"
    /\ validateCalls' = validateCalls + 1
    /\ LET r == Validate(env)
       IN  IF r.ok
           THEN /\ cfg' = r.val
                /\ pc' = "handler"
                /\ UNCHANGED <<stderr, exc, interrupted>>
           ELSE Raised(r) /\ UNCHANGED cfg
    /\ UNCHANGED <<argv, env, command, cmdArgs, stdout, propagated, exitCode,
                   requests, apiUrl, response, data, processed, fnIn, fnOut>>

\* fac.run_gr: the import of commands.gr succeeds, or raises ImportError,
\* which run_gr turns into config.error
RunGr ==
    /\ pc = "handler"
    /\ \E found \in BOOLEAN :
          IF found
          THEN pc' = "gr_run" /\ UNCHANGED <<stderr, exc, interrupted>>
          ELSE Raised(ConfigError(<<"Gateway recent command module not found">>))
    /\ UNCHANGED <<argv, env, command, cmdArgs, stdout, propagated, exitCode,
                   requests, validateCalls, cfg, apiUrl, response, data,
                   processed, fnIn, fnOut>>

\* gr.run: display.print_info
GrPrintInfo ==
    /\ pc = "gr_run"
    /\ stdout' = Append(stdout, <<"(U+2139) ", "Fetching gateway recent data...">>)
    /\ pc' = "fetch"
    /\ UNCHANGED <<argv, env, command, cmdArgs, stderr, exc, propagated, exitCode,
                   requests, validateCalls, cfg, interrupted, apiUrl, response,
                   data, processed, fnIn, fnOut>>

\* gr.fetch: config.validate() again
GrFetch ==
    /\ pc = "fetch"
    /\ validateCalls' = validateCalls + 1
    /\ LET r == Validate(env)
       IN  IF r.ok
           THEN /\ cfg' = r.val
                /\ pc' = "airtable_get"
                /\ UNCHANGED <<stderr, exc, interrupted>>
           ELSE Raised(r) /\ UNCHANGED cfg
    /\ UNCHANGED <<argv, env, command, cmdArgs, stdout, propagated, exitCode,
                   requests, apiUrl, response, data, processed, fnIn, fnOut>>

\* airtable.get up to the request
AirtableGet ==
    /\ pc = "airtable_get"
    /\ LET r == GetApiUrl(cfg[1].AIRTABLE_API_KEY, cfg[1].AIRTABLE_VIEW_URL)
       IN  IF r.ok
           THEN /\ apiUrl' = r.val
                /\ pc' = "request"
                /\ UNCHANGED <<stderr, exc, interrupted>>
           ELSE Raised(r) /\ UNCHANGED apiUrl
    /\ UNCHANGED <<argv, env, command, cmdArgs, stdout, propagated, exitCode,
                   requests, validateCalls, cfg, response, data, processed,
                   fnIn, fnOut>>

\* request in a loop that sends the GET again after a timeout.
AirtableRequestRetry ==
    /\ pc = "request"
    /\ requests' = Append(requests, [url |-> apiUrl[1],
                                     headers |-> Auth(cfg[1].AIRTABLE_API_KEY)])
    /\ \E o \in TransportOutcomes :
          LET r == Request(o)
          IN  IF r.ok
              THEN /\ response' = r.val
                   /\ pc' = "parse"
                   /\ UNCHANGED <<stderr, exc, interrupted>>
              ELSE IF o.kind = "Timeout" /\ Len(requests) < 3
              THEN UNCHANGED <<pc, response, stderr, exc, interrupted>>
              ELSE Raised(r) /\ UNCHANGED response
    /\ UNCHANGED <<argv, env, command, cmdArgs, stdout, propagated, exitCode,
                   validateCalls, cfg, apiUrl, data, processed, fnIn, fnOut>>

\* airtable.request: the GET is sent, and ends in one of the outcomes
AirtableRequest ==
    /\ pc = "request"
    /\ requests' = Append(requests, [url |-> apiUrl[1],
                                     headers |-> Auth(cfg[1].AIRTABLE_API_KEY)])
    /\ \E o \in TransportOutcomes :
          LET r == Request(o)
          IN  IF r.ok
              THEN /\ response' = r.val
                   /\ pc' = "parse"
                   /\ UNCHANGED <<stderr, exc, interrupted>>
              ELSE Raised(r) /\ UNCHANGED response
    /\ UNCHANGED <<argv, env, command, cmdArgs, stdout, propagated, exitCode,
                   validateCalls, cfg, apiUrl, data, processed, fnIn, fnOut>>

\* airtable.get with an error helper that prints and returns: the run goes
\* on with no records.
AirtableParseContinue ==
    /\ pc = "parse"
    /\ LET r == GetRecords(response[1])
       IN  /\ data' = IF r.ok THEN r.val[1] ELSE <<>>
           /\ stderr' = stderr \o r.err
    /\ pc' = "process"
    /\ UNCHANGED <<argv, env, command, cmdArgs, stdout, exc, propagated, exitCode,
                   requests, validateCalls, cfg, interrupted, apiUrl, response,
                   processed, fnIn, fnOut>>

\* airtable.get after the request
AirtableParse ==
    /\ pc = "parse"
    /\ LET r == GetRecords(response[1])
       IN  IF r.ok
           THEN /\ data' = r.val[1]
                /\ pc' = "process"
                /\ UNCHANGED <<stderr, exc, interrupted>>
           ELSE Raised(r) /\ UNCHANGED data
    /\ UNCHANGED <<argv, env, command, cmdArgs, stdout, propagated, exitCode,
                   requests, validateCalls, cfg, apiUrl, response, processed,
                   fnIn, fnOut>>

\* gr.run: processed = process(data)
GrProcess ==
    /\ pc = "process"
    /\ processed' = Process(Some(data))
    /\ pc' = "display"
    /\ UNCHANGED <<argv, env, command, cmdArgs, stdout, stderr, exc, propagated,
                   exitCode, requests, validateCalls, cfg, interrupted, apiUrl,
                   response, data, fnIn, fnOut>>

\* gr.display_data: config.validate() a third time, the two lists parsed,
\* display.print_table
GrDisplayData ==
    /\ pc = "display"
    /\ validateCalls' = validateCalls + 1
    /\ LET v == Validate(env)
       IN  IF ~v.ok THEN Raised(v) /\ UNCHANGED <<cfg, stdout>>
           ELSE /\ cfg' = v.val
                /\ \E renders \in BOOLEAN :
                      LET r == PrintTable(processed,
                                          ParseColumns(v.val[1].GR_COLUMNS),
                                          ParseHeaders(v.val[1].GR_HEADERS), renders)
                      IN  IF r.ok
                          THEN /\ stdout' = stdout \o r.val[1]
                               /\ pc' = "success"
                               /\ UNCHANGED <<stderr, exc, interrupted>>
                          ELSE Raised(r) /\ UNCHANGED stdout
    /\ UNCHANGED <<argv, env, command, cmdArgs, propagated, exitCode, requests,
                   apiUrl, response, data, processed, fnIn, fnOut>>

\* print_success reporting the number of elements of the response instead
\* of the number of processed records.
GrPrintSuccessCountsElements ==
    /\ pc = "success"
    /\ stdout' = Append(stdout, <<"(U+2713) ", "Displayed ">>
                                \o IntStr(Len(response[1].json[1].elems))
                                \o <<" records">>)
    /\ pc' = "returned"
    /\ UNCHANGED <<argv, env, command, cmdArgs, stderr, exc, propagated, exitCode,
                   requests, validateCalls, cfg, interrupted, apiUrl, response,
                   data, processed, fnIn, fnOut>>

\* gr.run: display.print_success, then the handler returns
GrPrintSuccess ==
    /\ pc = "success"
    /\ stdout' = Append(stdout, <<"(U+2713) ", "Displayed ">>
                                \o IntStr(Len(processed)) \o <<" records">>)
    /\ pc' = "returned"
    /\ UNCHANGED <<argv, env, command, cmdArgs, stderr, exc, propagated, exitCode,
                   requests, validateCalls, cfg, interrupted, apiUrl, response,
                   data, processed, fnIn, fnOut>>

\* The user's interrupt arrives while the try block runs.
Interrupt ==
    /\ pc \in TryPcs
    /\ Raised(Raise(KeyboardInterrupt))
    /\ UNCHANGED <<argv, env, command, cmdArgs, stdout, propagated, exitCode,
                   requests, validateCalls, cfg, apiUrl, response, data,
                   processed, fnIn, fnOut>>

\* dispatch's except clauses
DispatchExcept ==
    /\ pc = "except"
    /\ LET r == DispatchHandler(env, exc)
       IN  /\ stderr' = stderr \o r.err
           /\ propagated' = Some(r.exc)
    /\ pc' = "uncaught"
    /\ UNCHANGED <<argv, env, command, cmdArgs, stdout, exc, exitCode, requests,
                   validateCalls, cfg, interrupted, apiUrl, response, data,
                   processed, fnIn, fnOut>>

\* The interpreter ends the process: code 0 when main returned, SystemExit's
\* code, or a traceback and code 1 for any other uncaught exception.
ExitStatus(returned, x) ==
    IF returned THEN [err |-> <<>>, code |-> 0]
    ELSE IF x[1].kind = "SystemExit" THEN [err |-> <<>>, code |-> x[1].code]
    ELSE [err |-> << <<"Traceback (most recent call last): ", x[1].kind, ": ">>
                     \o x[1].msg >>,
          code |-> 1]

Terminate ==
    /\ pc \in {"returned", "uncaught"}
    /\ LET r == ExitStatus(pc = "returned", propagated)
       IN  /\ stderr' = stderr \o r.err
           /\ exitCode' = Some(r.code)
    /\ pc' = "done"
    /\ UNCHANGED <<argv, env, command, cmdArgs, stdout, exc, propagated, requests,
                   validateCalls, cfg, interrupted, apiUrl, response, data,
                   processed, fnIn, fnOut>>

Next ==
    \/ Route
    \/ DispatchHelp
    \/ DispatchCommand
    \/ DispatchUnknown
    \/ TryValidate
    \/ RunGr
    \/ GrPrintInfo
    \/ GrFetch
    \/ AirtableGet
    \/ AirtableRequest
    \/ AirtableParse
    \/ GrProcess
    \/ GrDisplayData
    \/ GrPrintSuccess
    \/ Interrupt
    \/ DispatchExcept
    \/ Terminate

Spec == Init /\ [][Next]_vars

---------------------------------------------------------------------------
(* convert_url applied on its own, to URLs built from a prefix and up to   *)
(* MaxSegments segments joined by "/".                                     *)

MaxSegments == 4

UrlPrefixes ==
    {HumanPrefix, ApiPrefix, <<>>, <<"h","t","t","p",":","/","/","a","i","r","t","a","b","l","e",".","c","o","m","/">>}

UrlSegments ==
    { <<>>, <<"a","p","p","A","1">>, <<"t","b","l","B","2">>, <<"v","i","w","C","3">>, <<"V","i","w","C","3">>, <<"x">>,
      <<"a","p","p">> \o HumanPrefix \o <<"Z","9">> }

UrlInputs ==
    {p \o JoinWith(segs, <<"/">>) :
        p \in UrlPrefixes, segs \in SeqsUpTo(UrlSegments, MaxSegments)}

InitConvert ==
    /\ fnIn \in {Some(u) : u \in UrlInputs}
    /\ fnOut = None
    /\ pc = "call"
    /\ argv = <<>>
    /\ env = [k \in EnvKeys |-> None]
    /\ command = ""
    /\ cmdArgs = <<>>
    /\ stdout = <<>>
    /\ stderr = <<>>
    /\ exc = NoExc
    /\ propagated = None
    /\ exitCode = None
    /\ requests = <<>>
    /\ validateCalls = 0
    /\ cfg = None
    /\ interrupted = FALSE
    /\ apiUrl = None
    /\ response = None
    /\ data = <<>>
    /\ processed = <<>>

\* convert_url(fnIn)
CallConvertUrl ==
    /\ pc = "call"
    /\ fnOut' = Some(ConvertUrl(fnIn[1]))
    /\ pc' = "called"
    /\ UNCHANGED <<argv, env, command, cmdArgs, stdout, stderr, exc, propagated,
                   exitCode, requests, validateCalls, cfg, interrupted, apiUrl,
                   response, data, processed, fnIn>>

\* convert_url(convert_url(fnIn)): the URL the first call returned is kept
\* in apiUrl and passed to a second call
CallConvertUrlAgain ==
    /\ pc = "called"
    /\ fnOut[1].ok
    /\ apiUrl' = fnOut[1].val
    /\ fnOut' = Some(ConvertUrl(fnOut[1].val[1]))
    /\ pc' = "called_again"
    /\ UNCHANGED <<argv, env, command, cmdArgs, stdout, stderr, exc, propagated,
                   exitCode, requests, validateCalls, cfg, interrupted,
                   response, data, processed, fnIn>>

NextConvert == CallConvertUrl \/ CallConvertUrlAgain

SpecConvert == InitConvert /\ [][NextConvert]_vars

---------------------------------------------------------------------------
(* The functions of the pipeline called on their own: fnIn holds the       *)
(* argument, pc the function to call, and fnOut receives what the call     *)
(* returns or raises.  The variables of a run stay as they start.          *)

FnIdle ==
    /\ fnOut = None
    /\ argv = <<>>
    /\ env = [k \in EnvKeys |-> None]
    /\ command = ""
    /\ cmdArgs = <<>>
    /\ stdout = <<>>
    /\ stderr = <<>>
    /\ exc = NoExc
    /\ propagated = None
    /\ exitCode = None
    /\ requests = <<>>
    /\ validateCalls = 0
    /\ cfg = None
    /\ interrupted = FALSE
    /\ apiUrl = None
    /\ response = None
    /\ data = <<>>
    /\ processed = <<>>

FnCalled(name, out) ==
    /\ fnOut' = Some(out)
    /\ pc' = name
    /\ UNCHANGED <<argv, env, command, cmdArgs, stdout, stderr, exc, propagated,
                   exitCode, requests, validateCalls, cfg, interrupted, apiUrl,
                   response, data, processed, fnIn>>

\* What requests.get does: the four exceptions, or a response with any
\* HTTP status and a body.
StatusCodes == 100..599

RequestOutcomes ==
    { Outcome("Timeout", 0, "", None), Outcome("ConnectionError", 0, "", None),
      Outcome("Other", 0, "Invalid header value", None),
      Outcome("KeyboardInterrupt", 0, "", None) }
    \cup {Outcome("Response", st, txt, None) :
             st \in StatusCodes, txt \in {"", "{\"error\": \"...\"}"}}

\* The lists extract is called on: up to MaxElements elements, each with or
\* without `fields`.
MaxElements == 4

ExtractInputs ==
    SeqsUpTo(Elements \cup {[hasFields |-> TRUE, fields |-> <<>>]}, MaxElements)

\* The values a field holds: strings short and long, null, a number, and
\* lists (empty, of one string, of a number and a string, of null, of a
\* list).
FieldValues ==
    { VStr(<<>>), VStr(<<"L","i">>), VStr(<<"E","l","i","z","a","b","e","t","h">>), VNull, VInt(12345),
      VList(<<>>), VList(<<VStr(<<"E","l","i","z","a","b","e","t","h">>)>>),
      VList(<<VInt(7), VStr(<<"x">>)>>), VList(<<VNull>>),
      VList(<<VList(<<VStr(<<"a","b">>)>>)>>) }

\* The records process is called on: with or without `Family name`, with or
\* without `Name`.
ProcessRecords ==
    LET names == {<<>>, NameKey :> VStr(<<"A","l">>), NameKey :> VNull}
    IN  names \cup {(FamilyName :> v) @@ n : v \in FieldValues, n \in names}

ProcessInputs == {None} \cup {Some(l) : l \in SeqsUpTo(ProcessRecords, MaxRecords)}

\* The values flatten_array_value is called on: those above, and every
\* list of up to two scalars.
ScalarValues ==
    {VStr(<<>>), VStr(<<"L","i">>), VStr(<<"E","l","i","z","a","b","e","t","h">>), VNull, VInt(12345)}

FlattenInputs == FieldValues \cup {VList(l) : l \in SeqsUpTo(ScalarValues, 2)}

\* The names abbreviate_name is called on: up to MaxNameLen characters.
MaxNameLen == 6

NameInputs == SeqsUpTo({"a", "b"}, MaxNameLen)

\* The arguments of format: up to MaxRecords rows, up to MaxColumns columns
\* and as many headers, or fewer, or more.
MaxColumns == 2

FormatInputs ==
    [data : SeqsUpTo({<<>>, NameKey :> VNull,
                      (FamilyName :> VStr(<<"E","l","i","z">>)) @@ (NameKey :> VStr(<<"A","l">>))},
                     MaxRecords),
     columns : SeqsUpTo({NameKey, FamilyName}, MaxColumns),
     headers : SeqsUpTo({<<"W","h","o">>, <<"F","a","m","i","l","y">>}, MaxColumns)]

\* Values whose string form has from 0 to MaxValueLen characters (a
\* string) or 4 more (a list of one string), in one-row, one-column calls of
\* format.
MaxValueLen == 53

Chars(n) == [i \in 1..n |-> Digits[(i % 10) + 1]]

LongValues ==
    {VStr(Chars(n)) : n \in 0..MaxValueLen}
    \cup {VList(<<VStr(Chars(n))>>) : n \in 0..MaxValueLen}

LongCellInputs ==
    {[data |-> <<NameKey :> v>>, columns |-> <<NameKey>>, headers |-> <<<<"W","h","o">>>>] :
        v \in LongValues}

\* The arguments of print_table: those of format, and whether the renderer
\* returns or raises.
PrintTableInputs ==
    {[data |-> a.data, columns |-> a.columns, headers |-> a.headers, renders |-> b] :
        a \in FormatInputs, b \in BOOLEAN}

\* The arguments of table: up to MaxRecords formatted rows of up to
\* MaxColumns cells, the headers, and whether the renderer returns or raises.
TableInputs ==
    [data : SeqsUpTo(SeqsUpTo({<<>>, <<"A","l">>}, MaxColumns), MaxRecords),
     headers : SeqsUpTo({<<"W","h","o">>, <<"F","a","m","i","l","y">>}, MaxColumns),
     renders : BOOLEAN]

\* process called on objects: a heap of up to MaxRecords records and None
\* or a list of up to MaxRecords references to them, repeated ones included.
HeapRecords ==
    { NameKey :> VStr(<<"A","l">>),
      FamilyName :> VStr(<<"L","i">>),
      (FamilyName :> VStr(<<"E","l","i","z","a","b","e","t","h">>)) @@ (NameKey :> VNull),
      FamilyName :> VList(<<VStr(<<"E","l","i","z","a","b","e","t","h">>)>>),
      FamilyName :> VNull }

ProcessObjectInputs ==
    UNION {{[heap |-> h, data |-> d] :
               d \in {None} \cup {Some(l) : l \in SeqsUpTo(1..Len(h), MaxRecords)}} :
           h \in SeqsUpTo(HeapRecords, MaxRecords) \ {<<>>}}

InitFn ==
    /\ FnIdle
    /\ \/ pc = "call_request" /\ fnIn \in {Some(o) : o \in RequestOutcomes}
       \/ pc = "call_extract" /\ fnIn \in {Some(l) : l \in ExtractInputs}
       \/ pc = "call_process" /\ fnIn \in {Some(d) : d \in ProcessInputs}
       \/ pc = "call_flatten" /\ fnIn \in {Some(v) : v \in FlattenInputs}
       \/ pc = "call_abbreviate" /\ fnIn \in {Some(n) : n \in NameInputs}
       \/ pc = "call_process_objects"
          /\ fnIn \in {Some(a) : a \in ProcessObjectInputs}
       \/ pc = "call_table" /\ fnIn \in {Some(a) : a \in TableInputs}
       \/ pc = "call_print_table" /\ fnIn \in {Some(a) : a \in PrintTableInputs}
       \/ pc = "call_format"
          /\ fnIn \in {Some(a) : a \in FormatInputs \cup LongCellInputs}

\* airtable.request(url, headers), requests.get ending in outcome fnIn
CallRequest ==
    /\ pc = "call_request"
    /\ FnCalled("called_request", Request(fnIn[1]))

\* airtable.extract(fnIn)
CallExtract ==
    /\ pc = "call_extract"
    /\ FnCalled("called_extract", Return(Extract(fnIn[1])))

\* gr.process(fnIn)
CallProcess ==
    /\ pc = "call_process"
    /\ FnCalled("called_process", Return(Process(fnIn[1])))

\* gr.flatten_array_value(fnIn)
CallFlattenArrayValue ==
    /\ pc = "call_flatten"
    /\ FnCalled("called_flatten", Return(FlattenArrayValue(fnIn[1])))

\* gr.abbreviate_name(fnIn)
CallAbbreviateName ==
    /\ pc = "call_abbreviate"
    /\ FnCalled("called_abbreviate", Return(AbbreviateName(fnIn[1])))

\* display.format(data, columns, headers)
CallFormat ==
    /\ pc = "call_format"
    /\ FnCalled("called_format",
                Format(fnIn[1].data, fnIn[1].columns, fnIn[1].headers))

\* display.table(data, headers)
CallTable ==
    /\ pc = "call_table"
    /\ FnCalled("called_table",
                Table(fnIn[1].data, fnIn[1].headers, fnIn[1].renders))

\* display.print_table(data, columns, headers)
CallPrintTable ==
    /\ pc = "call_print_table"
    /\ FnCalled("called_print_table",
                PrintTable(fnIn[1].data, fnIn[1].columns, fnIn[1].headers,
                           fnIn[1].renders))

\* gr.process(data), the records being objects on the heap
CallProcessObjects ==
    /\ pc = "call_process_objects"
    /\ FnCalled("called_process_objects",
                Return(ProcessObjects(fnIn[1].heap, fnIn[1].data)))

NextFn ==
    \/ CallRequest
    \/ CallExtract
    \/ CallProcess
    \/ CallFlattenArrayValue
    \/ CallAbbreviateName
    \/ CallFormat
    \/ CallTable
    \/ CallPrintTable
    \/ CallProcessObjects

SpecFn == InitFn /\ [][NextFn]_vars

---------------------------------------------------------------------------
(* Properties of a run.                                                    *)

Done == pc = "done"

TipLine == <<"Tip: Copy .env.example to .env and add your credentials">>

\* The first required variable that is absent or empty, in validate's order.
FirstMissing ==
    IF env.AIRTABLE_API_KEY \in {None, Some(<<>>)} THEN "AIRTABLE_API_KEY"
    ELSE "AIRTABLE_VIEW_URL"

RequiredMissing ==
    \/ env.AIRTABLE_API_KEY \in {None, Some(<<>>)}
    \/ env.AIRTABLE_VIEW_URL \in {None, Some(<<>>)}

GrRun == Len(argv) >= 2 /\ argv[2] = "gr"

\* C1: a `gr` run with AIRTABLE_API_KEY or AIRTABLE_VIEW_URL absent or empty
\* never issues an HTTP request, and (when no user interrupt cuts it short)
\* ends with exit code 1 and exactly two lines on the error stream: the
\* message naming the first missing variable, then the tip.
C1_MissingRequiredExits ==
    (GrRun /\ RequiredMissing) =>
        /\ requests = <<>>
        /\ (Done /\ ~interrupted) =>
              /\ exitCode = Some(1)
              /\ stderr = << <<"Error: ", "Required environment variable ",
                               FirstMissing, " not set">>,
                             TipLine >>

C1_Witness ==
    /\ GrRun /\ Done /\ ~interrupted
    /\ env.AIRTABLE_API_KEY = Some(<<"k","e","y">>)
    /\ env.AIRTABLE_VIEW_URL = Some(<<>>)
    /\ exitCode = Some(1)
    /\ Len(stderr) = 2

HelpRun == Len(argv) = 1 \/ (Len(argv) >= 2 /\ argv[2] \in {"help", "--help", "-h"})

\* C2: for help, --help, -h and an argv holding only the program name, the
\* run prints the help text and ends with exit code 0; config.validate is
\* never called and nothing reaches the error stream, whatever the
\* environment holds.
C2_HelpSkipsValidation ==
    HelpRun =>
        /\ validateCalls = 0
        /\ requests = <<>>
        /\ stderr = <<>>
        /\ Done => (exitCode = Some(0) /\ stdout = <<HelpText>>)

C2_Witness ==
    /\ Done /\ Len(argv) = 1
    /\ env.AIRTABLE_API_KEY = None /\ env.AIRTABLE_VIEW_URL = None
    /\ exitCode = Some(0) /\ stdout = <<HelpText>>

\* The view URL is in the human-facing form: the host prefix, then at least
\* three segments starting with app, tbl and viw.
HumanForm(u) ==
    /\ StartsWith(u, HumanPrefix)
    /\ LET segs == Split(DropFirst(u, Len(HumanPrefix)), "/")
       IN  /\ Len(segs) >= 3
           /\ StartsWith(segs[1], <<"a","p","p">>)
           /\ StartsWith(segs[2], <<"t","b","l">>)
           /\ StartsWith(segs[3], <<"v","i","w">>)

\* u is https://api.airtable.com/v0/<app>/<table>?view=<view>
ApiV0Form(u) ==
    LET base == <<"h","t","t","p","s",":","/","/","a","p","i",".","a","i","r","t","a","b","l","e",".","c","o","m","/","v","0","/">>
    IN  /\ StartsWith(u, base)
        /\ LET segs == Split(DropFirst(u, Len(base)), "/")
           IN  /\ Len(segs) = 2
               /\ StartsWith(segs[1], <<"a","p","p">>)
               /\ StartsWith(segs[2], <<"t","b","l">>)
               /\ \E i \in 1..Len(segs[2]) :
                     /\ SubSeq(segs[2], i, i + 5) = <<"?","v","i","e","w","=">>
                     /\ StartsWith(DropFirst(segs[2], i + 5), <<"v","i","w">>)

\* C3: a run issues at most one HTTP GET, whatever the outcome of the first,
\* and when the configured view URL is in the human-facing form the GET goes
\* to https://api.airtable.com/v0/<app>/<table>?view=<view>.
C3_SingleGet ==
    /\ Len(requests) <= 1
    /\ (requests # <<>> /\ HumanForm(env.AIRTABLE_VIEW_URL[1])) =>
          ApiV0Form(requests[1].url)

C3_Witness ==
    /\ Done
    /\ Len(requests) = 1
    /\ HumanForm(env.AIRTABLE_VIEW_URL[1])
    /\ stderr = << <<"Error: ", "Request timed out. Check your internet connection.">> >>
    /\ exitCode = Some(1)

\* C4: every error is terminal: once a line has been written to the error
\* stream, no HTTP request is issued, nothing more (no table, no success
\* message) is printed to standard output, and control is on its way out
\* of the process.
C4_ErrorsAreTerminal ==
    [][stderr # <<>> =>
          /\ requests' = requests
          /\ stdout' = stdout
          /\ pc' \in {"uncaught", "done"}]_vars

C4_Witness ==
    /\ Done
    /\ Len(requests) = 1
    /\ stderr = << <<"Error: ", "Unexpected response format from Airtable. Missing 'records' field.">> >>
    /\ Len(stdout) = 1
    /\ exitCode = Some(1)

IsSuccessLine(line) ==
    Len(line) >= 2 /\ line[1] = "(U+2713) " /\ line[2] = "Displayed "

\* C5: a run that has ended has exit code 0, 1 or 130: 0 only after help
\* was shown or after the `gr` pipeline printed its success message, 130
\* only after a user interrupt, and 1 whenever an error was reported without
\* an interrupt.
C5_ExitCodes ==
    /\ exitCode # None <=> Done
    /\ Done =>
          /\ exitCode \in {Some(0), Some(1), Some(130)}
          /\ exitCode = Some(0) =>
                /\ stderr = <<>>
                /\ \/ stdout = <<HelpText>>
                   \/ GrRun /\ stdout # <<>> /\ IsSuccessLine(stdout[Len(stdout)])
          /\ exitCode = Some(130) => interrupted
          /\ (stderr # <<>> /\ ~interrupted) => exitCode = Some(1)

C5_Witness ==
    /\ Done /\ GrRun
    /\ exitCode = Some(0)
    /\ Len(stdout) = 3
    /\ IsSuccessLine(stdout[3])

CancelLine == <<"\nOperation cancelled by user">>

DebugOn == env.FAC_CLI_DEBUG # None /\ Lower(env.FAC_CLI_DEBUG[1]) = TrueStr

\* C6: a user interrupt delivered while a registered command is validated or
\* executed does not leave dispatch as KeyboardInterrupt: dispatch writes the
\* cancellation message last on the error stream and the run ends with exit
\* code 130, debug flag set or not; a run without an interrupt never ends
\* with 130.
C6_InterruptExits130 ==
    /\ (interrupted /\ pc \in {"uncaught", "done"}) =>
          /\ propagated = Some(SystemExit(130))
          /\ stderr # <<>> /\ stderr[Len(stderr)] = CancelLine
    /\ Done => (interrupted <=> exitCode = Some(130))

C6_Witness ==
    /\ Done /\ interrupted /\ DebugOn
    /\ Len(requests) = 1
    /\ exitCode = Some(130)
    /\ stderr = <<CancelLine>>

\* C7: when the `gr` handler raised an exception that is neither an
\* interrupt nor a process exit, then with FAC_CLI_DEBUG lower-cased equal to
\* "true" that same exception leaves dispatch and dispatch writes nothing;
\* otherwise dispatch writes the one line "Error: <message>" and raises
\* SystemExit(1), so the run ends with exit code 1.
C7_GenericException ==
    (IsException(exc) /\ pc \in {"uncaught", "done"}) =>
        IF DebugOn
        THEN /\ propagated = Some(exc)
             /\ pc = "uncaught" => stderr = <<>>
        ELSE /\ propagated = Some(SystemExit(1))
             /\ stderr = << <<"Error: ">> \o exc.msg >>
             /\ Done => exitCode = Some(1)

C7_Witness ==
    /\ pc = "uncaught"
    /\ IsException(exc)
    /\ env.FAC_CLI_DEBUG = Some(<<"T","r","u","e">>)
    /\ propagated = Some(exc)

UnknownRun == Len(argv) >= 2 /\ argv[2] \notin {"help", "--help", "-h", "gr"}

\* C8: for a command that is neither a help command nor `gr`, the run never
\* calls config.validate, issues no request and prints nothing to standard
\* output; it ends with exit code 1 and exactly the two lines
\* "Error: Unknown command: <command>" and the usage hint on the error stream.
C8_UnknownCommand ==
    UnknownRun =>
        /\ validateCalls = 0
        /\ requests = <<>>
        /\ stdout = <<>>
        /\ Done =>
              /\ exitCode = Some(1)
              /\ stderr = << <<"Error: ", "Unknown command: ", argv[2]>>,
                             <<"Use './fac.py help' for usage information">> >>

C8_Witness ==
    /\ Done
    /\ argv = <<"fac.py", "status">>
    /\ env.AIRTABLE_API_KEY = None /\ env.AIRTABLE_VIEW_URL = None
    /\ exitCode = Some(1)
    /\ Len(stderr) = 2

\* C9: a mapping config.validate returned has exactly the five keys; the two
\* required keys hold the non-empty environment values, GR_COLUMNS and
\* GR_HEADERS hold the environment value when the variable is set and the
\* default otherwise, and FAC_CLI_DEBUG is TRUE exactly when the environment
\* value lower-cased is "true".  With a required variable absent or empty
\* validate returns no mapping at all.
C9_ValidateMapping ==
    /\ cfg # None =>
          /\ DOMAIN cfg[1] = EnvKeys
          /\ ~RequiredMissing
          /\ cfg[1].AIRTABLE_API_KEY = env.AIRTABLE_API_KEY[1]
          /\ cfg[1].AIRTABLE_VIEW_URL = env.AIRTABLE_VIEW_URL[1]
          /\ cfg[1].GR_COLUMNS =
                IF env.GR_COLUMNS = None
                THEN <<"N","a","m","e",",","E","m","a","i","l",",","S","t","a","t","u","s",",","D","a","t","e">>
                ELSE env.GR_COLUMNS[1]
          /\ cfg[1].GR_HEADERS =
                IF env.GR_HEADERS = None
                THEN <<"S","t","u","d","e","n","t"," ","N","a","m","e",",","E","m","a","i","l"," ","A","d","d","r","e","s","s",",","C","u","r","r","e","n","t"," ","S","t","a","t","u","s",",","L","a","s","t"," ","U","p","d","a","t","e","d">>
                ELSE env.GR_HEADERS[1]
          /\ cfg[1].FAC_CLI_DEBUG = DebugOn
    /\ RequiredMissing => cfg = None

C9_Witness ==
    /\ validateCalls = 3
    /\ cfg # None
    /\ env.GR_COLUMNS = Some(<<>>)
    /\ env.GR_HEADERS = None
    /\ env.FAC_CLI_DEBUG = Some(<<"T","r","u","e">>)
    /\ cfg[1].GR_COLUMNS = <<>>
    /\ cfg[1].FAC_CLI_DEBUG = TRUE

\* The run is a `gr` run whose two required variables are set.
Configured ==
    /\ GrRun
    /\ env.AIRTABLE_API_KEY \notin {None, Some(<<>>)}
    /\ env.AIRTABLE_VIEW_URL \notin {None, Some(<<>>)}

\* u has neither host prefix, or has the human-facing one but not three
\* segments after it that start with app, tbl and viw.
InvalidShape(u) == ~StartsWith(u, ApiPrefix) /\ ~HumanForm(u)

\* C12: when the configured view URL has neither the API prefix nor the
\* human-facing prefix, or has the human-facing prefix followed by fewer
\* than three segments, or by segments of which the first three do not
\* start with app, tbl and viw, convert_url returns no URL, no request is
\* issued, and the run (when no user interrupt cuts it short) ends with
\* exit code 1.
C12_InvalidUrlExits ==
    (Configured /\ InvalidShape(env.AIRTABLE_VIEW_URL[1])) =>
        /\ apiUrl = None
        /\ requests = <<>>
        /\ (Done /\ ~interrupted) => exitCode = Some(1)

C12_Witness ==
    /\ Configured /\ Done /\ ~interrupted
    /\ env.AIRTABLE_VIEW_URL = Some(HumanPrefix \o <<"a","p","p","A","1","/","t","b","l","B","2","/","V","i","w","C","3">>)
    /\ requests = <<>>
    /\ exitCode = Some(1)
    /\ stderr = << <<"Error: ", "Invalid Airtable URL components. Expected appXXXXX/tblXXXXX/viwXXXXX format">> >>

\* A line that reports an error: the lines of the error helpers, of
\* show_error, of the interrupt clause and of the interpreter's traceback.
IsErrorLine(line) ==
    /\ line # <<>>
    /\ line[1] \in {"Error: ", "(U+2717) ", TipLine[1],
                    "Use './fac.py help' for usage information",
                    CancelLine[1], "Traceback (most recent call last): "}

\* gr.fetch has read the configuration and passed it to airtable.get, and
\* convert_url rejects the view URL.
UrlRejected ==
    /\ Configured
    /\ validateCalls = 2
    /\ ~ConvertUrl(env.AIRTABLE_VIEW_URL[1]).ok

UrlErrorMessages ==
    {"Invalid Airtable URL. Expected format: https://airtable.com/appXXXXX/tblXXXXX/viwXXXXX",
     "Invalid Airtable URL format. Expected: https://airtable.com/appXXXXX/tblXXXXX/viwXXXXX",
     "Invalid Airtable URL components. Expected appXXXXX/tblXXXXX/viwXXXXX format"}

\* C13 as stated: no error line is written to standard output, and a run
\* that convert_url ends (when no user interrupt cuts it short) leaves two
\* lines on the error stream, the message and then the remediation tip, as
\* a configuration error does.
C13_UrlErrorWritesTip ==
    /\ \A i \in 1..Len(stdout) : ~IsErrorLine(stdout[i])
    /\ (UrlRejected /\ Done /\ ~interrupted) =>
          /\ Len(stderr) = 2
          /\ stderr[1][1] = "Error: "
          /\ stderr[2] = TipLine

\* C13, amended: no error line is written to standard output and a run
\* that ends with a code other than 0 has an error line on the error
\* stream; a configuration error (a required variable absent or empty)
\* ends with the tip as the last line, whereas a URL that convert_url
\* rejects leaves exactly one line, "Error: " and the message naming the
\* expected format, and no tip.
C13_UrlErrorOneLine ==
    /\ \A i \in 1..Len(stdout) : ~IsErrorLine(stdout[i])
    /\ (Done /\ exitCode # Some(0)) =>
          (stderr # <<>> /\ \A i \in 1..Len(stderr) : IsErrorLine(stderr[i]))
    /\ (GrRun /\ RequiredMissing /\ Done /\ ~interrupted) =>
          stderr[Len(stderr)] = TipLine
    /\ (UrlRejected /\ Done /\ ~interrupted) =>
          /\ Len(stderr) = 1
          /\ stderr[1][1] = "Error: "
          /\ stderr[1][2] \in UrlErrorMessages
          /\ exitCode = Some(1)

C13_Witness ==
    /\ UrlRejected /\ Done /\ ~interrupted
    /\ env.AIRTABLE_VIEW_URL = Some(HumanPrefix \o <<"a","p","p","A","1","/","t","b","l","B","2">>)
    /\ stderr = << <<"Error: ", "Invalid Airtable URL format. Expected: https://airtable.com/appXXXXX/tblXXXXX/viwXXXXX">> >>
    /\ exitCode = Some(1)

InfoLine == <<"(U+2139) ", "Fetching gateway recent data...">>

\* The GET returned a response whose body is not valid JSON.
NotJson == response # None /\ response[1].json = None

\* The GET returned a response whose JSON body has no `records` key at the
\* top level: an object without it, an array or a scalar.
NoRecordsKey ==
    /\ response # None
    /\ response[1].json # None
    /\ \/ response[1].json[1].k \in {"scalar", "array"}
       \/ ~response[1].json[1].hasRecords

\* C15: once the GET has returned a response whose body is not valid JSON,
\* or is JSON without a top-level `records` key, airtable.get returns no
\* list: the run never gets to process, prints no table and no success
\* line, and (when no user interrupt cuts it short) ends with exit code 1.
\* For a body that is not JSON, and for a JSON object without `records`, one
\* line on the error stream says which.
C15_BadBodyExits ==
    (NotJson \/ NoRecordsKey) =>
        /\ pc \in {"parse", "except", "uncaught", "done"}
        /\ data = <<>> /\ processed = <<>>
        /\ stdout = <<InfoLine>>
        /\ (Done /\ ~interrupted) =>
              /\ exitCode = Some(1)
              /\ NotJson =>
                    stderr = << <<"Error: ", "Invalid response from Airtable API. Expected JSON.">> >>
              /\ (NoRecordsKey /\ response[1].json[1].k = "object") =>
                    stderr = << <<"Error: ", "Unexpected response format from Airtable. Missing 'records' field.">> >>

C15_Witness ==
    /\ Done /\ ~interrupted
    /\ response # None
    /\ response[1].json = Some(JsonObject(FALSE, FALSE, <<>>))
    /\ exitCode = Some(1)
    /\ stdout = <<InfoLine>>
    /\ stderr = << <<"Error: ", "Unexpected response format from Airtable. Missing 'records' field.">> >>

\* The number of elements of the response's `records` that have `fields`.
WithFields ==
    Cardinality({i \in 1..Len(response[1].json[1].elems) :
                    response[1].json[1].elems[i].hasFields})

\* C25: a `gr` run prints the info line before it sends the request; a
\* second line is printed only after the response was fetched and is the
\* table or the no-data line; the success line comes third, only after
\* that, and reports N, the number of processed records, which is the number
\* of fetched records and of response elements that have `fields`.
C25_GrOrderAndCount ==
    GrRun =>
        /\ Len(stdout) <= 3
        /\ (requests # <<>> \/ stdout # <<>>) => stdout[1] = InfoLine
        /\ Len(stdout) >= 2 =>
              /\ response # None
              /\ Len(data) = WithFields
              /\ Len(processed) = Len(data)
              /\ \/ stdout[2] = <<"No data available">>
                 \/ stdout[2][1] = "+grid+"
        /\ Len(stdout) = 3 =>
              /\ stdout[3] = <<"(U+2713) ", "Displayed ">> \o IntStr(WithFields)
                             \o <<" records">>
              /\ pc \in {"returned", "done"}
        /\ (Done /\ exitCode = Some(0)) => Len(stdout) = 3

C25_Witness ==
    /\ GrRun /\ Done
    /\ exitCode = Some(0)
    /\ Len(response[1].json[1].elems) = 2
    /\ WithFields = 1
    /\ stdout[2][1] = "+grid+"
    /\ stdout[3] = <<"(U+2713) ", "Displayed ", "1", " records">>

\* C28: every request sent carries the API key as a bearer token and is
\* addressed to a URL that starts with https://api.airtable.com/, whatever
\* AIRTABLE_VIEW_URL holds; when convert_url returned no URL no request was
\* sent.
C28_KeyOnlyToApiHost ==
    /\ \A i \in 1..Len(requests) :
          /\ requests[i].headers.Authorization =
                <<"B","e","a","r","e","r"," ">> \o env.AIRTABLE_API_KEY[1]
          /\ StartsWith(requests[i].url, ApiPrefix)
    /\ apiUrl = None => requests = <<>>

C28_Witness ==
    /\ Len(requests) = 1
    /\ env.AIRTABLE_VIEW_URL = Some(ApiPrefix \o <<"v","0","/","a","p","p","A","1","/","t","b","l","B","2","?","v","i","e","w","=","v","i","w","C","3">>)
    /\ requests[1].url = env.AIRTABLE_VIEW_URL[1]
    /\ requests[1].headers.Authorization = <<"B","e","a","r","e","r"," ","k","e","y">>

\* The lines of the error stream that open an error report.
ErrorReports(lines) ==
    {i \in 1..Len(lines) : lines[i][1] \in {"Error: ", "(U+2717) "}}

\* C29: when a fatal helper has raised SystemExit inside the try block of
\* dispatch (from config.validate or from the `gr` handler), dispatch lets
\* it through: the except clauses write nothing and the same exception
\* leaves dispatch, the process ends with its exit code and writes nothing
\* more, and the error stream then holds exactly one error report; debug
\* flag set or not.
C29_ExitPassesDispatch ==
    [][ exc.kind = "SystemExit" =>
          /\ pc = "except" => (stderr' = stderr /\ propagated' = Some(exc))
          /\ pc = "uncaught" =>
                /\ stderr' = stderr
                /\ exitCode' = Some(exc.code)
                /\ Cardinality(ErrorReports(stderr')) = 1 ]_vars

C29_Witness ==
    /\ Done /\ DebugOn
    /\ exc = SystemExit(1)
    /\ propagated = Some(SystemExit(1))
    /\ exitCode = Some(1)
    /\ stderr = << <<"Error: ", "Unexpected response format from Airtable. Missing 'records' field.">> >>

\* The response's `records` is a list.
RecordsFetched ==
    /\ response # None
    /\ response[1].json # None
    /\ response[1].json[1].k = "object"
    /\ response[1].json[1].hasRecords
    /\ response[1].json[1].isList

\* The numbers of parsed GR_COLUMNS and GR_HEADERS entries differ.
CountsDiffer ==
    LET v == Validate(env).val[1]
    IN  Len(ParseColumns(v.GR_COLUMNS)) # Len(ParseHeaders(v.GR_HEADERS))

\* C30: a `gr` run that fetched no record (no element with `fields`) and
\* that no user interrupt cuts short prints the info line, "No data
\* available" and "Displayed 0 records" and ends with exit code 0 with
\* nothing on the error stream, also when the numbers of columns and
\* headers differ; with at least one record and different numbers it ends
\* with the mismatch line and exit code 1; "No data to display" is never
\* printed.
C30_MismatchNeedsRecords ==
    /\ \A i \in 1..Len(stdout) : stdout[i] # <<"No data to display">>
    /\ (RecordsFetched /\ Done /\ ~interrupted) =>
          IF WithFields = 0
          THEN /\ stdout = << InfoLine, <<"No data available">>,
                              <<"(U+2713) ", "Displayed ", "0", " records">> >>
               /\ stderr = <<>>
               /\ exitCode = Some(0)
          ELSE CountsDiffer =>
                  /\ stdout = <<InfoLine>>
                  /\ Len(stderr) = 1
                  /\ stderr[1][1] = "(U+2717) " /\ stderr[1][2] = "Columns ("
                  /\ exitCode = Some(1)

C30_Witness ==
    /\ RecordsFetched /\ Done /\ ~interrupted
    /\ Len(response[1].json[1].elems) = 1
    /\ WithFields = 0
    /\ CountsDiffer
    /\ stdout[2] = <<"No data available">>
    /\ exitCode = Some(0)

---------------------------------------------------------------------------
(* Properties of convert_url.                                              *)

\* C10: for a URL made of the human-facing host prefix and at least three
\* segments s1, s2, s3 starting with app, tbl and viw, whose remainder does
\* not contain the host prefix again, convert_url returns exactly
\* https://api.airtable.com/v0/<s1>/<s2>?view=<s3>: every later segment,
\* the empty one left by a trailing slash included, is discarded.
C10_ConvertHumanUrl ==
    pc = "called" =>
        LET u == fnIn[1]
            rest == DropFirst(u, Len(HumanPrefix))
            segs == Split(rest, "/")
        IN  (HumanForm(u) /\ ~Contains(rest, HumanPrefix)) =>
                fnOut[1] = Return(<<"h","t","t","p","s",":","/","/","a","p","i",".","a","i","r","t","a","b","l","e",".","c","o","m","/","v","0","/">>
                                  \o segs[1] \o <<"/">> \o segs[2]
                                  \o <<"?","v","i","e","w","=">> \o segs[3])

C10_Witness ==
    /\ pc = "called"
    /\ fnIn = Some(HumanPrefix \o <<"a","p","p","A","1","/","t","b","l","B","2","/","v","i","w","C","3","/">>)
    /\ fnOut[1].ok
    /\ fnOut[1].val = Some(<<"h","t","t","p","s",":","/","/","a","p","i",".","a","i","r","t","a","b","l","e",".","c","o","m","/","v","0","/","a","p","p","A","1","/","t","b","l","B","2","?","v","i","e","w","=","v","i","w","C","3">>)

\* C11: convert_url returns a URL that starts with https://api.airtable.com/
\* unchanged, and a second call on the URL a first call returned (for a
\* human-facing input as for any other) returns that same URL.
C11_ApiUrlUnchanged ==
    /\ (pc = "called" /\ StartsWith(fnIn[1], ApiPrefix)) =>
          fnOut[1] = Return(fnIn[1])
    /\ pc = "called_again" => fnOut[1] = Return(apiUrl[1])

C11_Witness ==
    /\ pc = "called_again"
    /\ HumanForm(fnIn[1])
    /\ apiUrl = Some(ApiPrefix \o <<"v","0","/","a","p","p","A","1","/","t","b","l","B","2","?","v","i","e","w","=","v","i","w","C","3">>)
    /\ fnOut[1].ok
    /\ fnOut[1].val = apiUrl

\* C26: for an input that starts with the human-facing host prefix, the
\* URL convert_url returns is built from the first three "/"-separated
\* segments of what follows that leading prefix, also when the host prefix
\* occurs again further on.
C26_LeadingPrefixOnly ==
    (pc = "called" /\ StartsWith(fnIn[1], HumanPrefix) /\ fnOut[1].ok) =>
        LET segs == Split(DropFirst(fnIn[1], Len(HumanPrefix)), "/")
        IN  /\ Len(segs) >= 3
            /\ fnOut[1].val[1] =
                  ApiPrefix \o <<"v","0","/">> \o segs[1] \o <<"/">> \o segs[2]
                  \o <<"?","v","i","e","w","=">> \o segs[3]

C26_Witness ==
    /\ pc = "called"
    /\ fnIn[1] = HumanPrefix \o <<"a","p","p">> \o HumanPrefix
                 \o <<"Z","9","/","t","b","l","B","2","/","v","i","w","C","3">>
    /\ fnOut[1].ok
    /\ fnOut[1].val[1] = ApiPrefix \o <<"v","0","/","a","p","p","Z","9","/","t","b","l","B","2","?","v","i","e","w","=","v","i","w","C","3">>

---------------------------------------------------------------------------
(* Properties of the functions called on their own.                        *)

\* The class of a transport outcome: the except clause, and under HTTPError
\* the branch, that handles it; "none" when request reports no error.
OutcomeClass(o) ==
    CASE o.kind = "Timeout" -> "timeout"
      [] o.kind = "ConnectionError" -> "connection"
      [] o.kind = "Other" -> "exception"
      [] o.kind = "KeyboardInterrupt" -> "none"
      [] o.kind = "Response" ->
            IF o.status < 400 THEN "none"
            ELSE IF o.status = 401 THEN "401"
            ELSE IF o.status = 404 THEN "404"
            ELSE IF o.status = 429 THEN "429"
            ELSE "status"

\* The message of each class.
ClassMessage(o) ==
    CASE OutcomeClass(o) = "timeout" ->
            <<"Request timed out. Check your internet connection.">>
      [] OutcomeClass(o) = "connection" ->
            <<"Unable to connect to Airtable. Check your internet connection.">>
      [] OutcomeClass(o) = "401" ->
            <<"Invalid Airtable API key. Check your credentials in .env file.">>
      [] OutcomeClass(o) = "404" ->
            <<"Airtable view not found. Check your AIRTABLE_VIEW_URL in .env file.">>
      [] OutcomeClass(o) = "429" ->
            <<"Airtable API rate limit exceeded. Please try again later.">>
      [] OutcomeClass(o) = "status" ->
            <<"Airtable API error: ">> \o IntStr(o.status) \o <<" - ", o.text>>
      [] OutcomeClass(o) = "exception" ->
            <<"Unexpected error connecting to Airtable: ", o.text>>

\* One outcome of each class.
ClassExamples ==
    { Outcome("Timeout", 0, "", None), Outcome("ConnectionError", 0, "", None),
      Outcome("Other", 0, "Invalid header value", None),
      Outcome("Response", 401, "", None), Outcome("Response", 404, "", None),
      Outcome("Response", 429, "", None), Outcome("Response", 500, "", None) }

\* C14: whatever the outcome of the GET (a timeout, a connection failure,
\* status 401, 404 or 429, any other status from 400 to 599, any other
\* exception), request writes exactly one line, "Error: " and the message
\* of the outcome's class, and raises SystemExit with code 1; the line
\* differs from that of every other class; a response with a status below
\* 400 is returned and no line is written.
C14_OneMessagePerClass ==
    pc = "called_request" =>
        LET o == fnIn[1]
            r == fnOut[1]
        IN  /\ OutcomeClass(o) # "none" =>
                  /\ ~r.ok /\ r.val = None
                  /\ r.exc = SystemExit(1)
                  /\ r.err = << <<"Error: ">> \o ClassMessage(o) >>
                  /\ \A e \in ClassExamples :
                        OutcomeClass(e) # OutcomeClass(o) =>
                            r.err # << <<"Error: ">> \o ClassMessage(e) >>
            /\ (o.kind = "Response" /\ o.status < 400) =>
                  r = Return(o)

C14_Witness ==
    /\ pc = "called_request"
    /\ fnIn = Some(Outcome("Response", 429, "{\"error\": \"...\"}", None))
    /\ fnOut[1].exc = SystemExit(1)
    /\ fnOut[1].err = << <<"Error: ", "Airtable API rate limit exceeded. Please try again later.">> >>

\* The fields of the elements that have them, first to last.
RECURSIVE FieldsInOrder(_)
FieldsInOrder(els) ==
    IF els = <<>> THEN <<>>
    ELSE (IF Head(els).hasFields THEN <<Head(els).fields>> ELSE <<>>)
         \o FieldsInOrder(Tail(els))

\* C16: extract returns, in the order of the input, the `fields` of each
\* element that has `fields` and nothing for the others; the result is as
\* long as the number of elements with `fields`, and extract([]) is [].
C16_ExtractFields ==
    pc = "called_extract" =>
        LET records == fnIn[1]
            r == fnOut[1]
        IN  /\ r.ok /\ r.err = <<>>
            /\ r.val[1] = FieldsInOrder(records)
            /\ Len(r.val[1]) =
                  Cardinality({i \in 1..Len(records) : records[i].hasFields})
            /\ records = <<>> => r.val[1] = <<>>

C16_Witness ==
    /\ pc = "called_extract"
    /\ Len(fnIn[1]) = 3
    /\ ~fnIn[1][1].hasFields
    /\ fnIn[1][2].hasFields
    /\ fnIn[1][3].hasFields
    /\ fnIn[1][2].fields = (NameKey :> VNull)
    /\ fnIn[1][3].fields # fnIn[1][2].fields
    /\ fnOut[1].val[1] = <<fnIn[1][2].fields, fnIn[1][3].fields>>

\* C17: process returns a list as long as its input and in the same order;
\* each record keeps its keys and, for every key but `Family name`, its
\* value; `Family name`, when present, becomes
\* abbreviate_name(flatten_array_value(old value)), a string of at most 4
\* characters.  process(None) and process([]) return [].
C17_ProcessRecords ==
    pc = "called_process" =>
        LET d == fnIn[1]
            r == fnOut[1]
        IN  /\ r.ok /\ r.err = <<>>
            /\ (d = None \/ d = Some(<<>>)) => r.val[1] = <<>>
            /\ d # None =>
                  /\ Len(r.val[1]) = Len(d[1])
                  /\ \A i \in 1..Len(d[1]) :
                        LET old == d[1][i]
                            new == r.val[1][i]
                        IN  /\ DOMAIN new = DOMAIN old
                            /\ \A k \in DOMAIN old \ {FamilyName} : new[k] = old[k]
                            /\ FamilyName \in DOMAIN old =>
                                  /\ new[FamilyName].t = "str"
                                  /\ Len(new[FamilyName].s) <= 4
                                  /\ new[FamilyName].s =
                                        AbbreviateName(FlattenArrayValue(old[FamilyName]))

C17_Witness ==
    /\ pc = "called_process"
    /\ fnIn[1] = Some(<< (FamilyName :> VList(<<VStr(<<"E","l","i","z","a","b","e","t","h">>)>>)) @@ (NameKey :> VNull),
                         (NameKey :> VStr(<<"A","l">>)) >>)
    /\ fnOut[1].val[1] = << (FamilyName :> VStr(<<"E","l","i","z">>)) @@ (NameKey :> VNull),
                            (NameKey :> VStr(<<"A","l">>)) >>

\* C18: abbreviate_name(s) is the first min(len(s), 4) characters of s,
\* and is s itself when s has at most 4 characters.
C18_AbbreviatePrefix ==
    pc = "called_abbreviate" =>
        LET name == fnIn[1]
            out == fnOut[1].val[1]
        IN  /\ fnOut[1].ok
            /\ Len(out) = (IF Len(name) < 4 THEN Len(name) ELSE 4)
            /\ \A i \in 1..Len(out) : out[i] = name[i]
            /\ Len(name) <= 4 => out = name

C18_Witness ==
    /\ pc = "called_abbreviate"
    /\ fnIn[1] = <<"a","b","b","a","b">>
    /\ fnOut[1].val[1] = <<"a","b","b","a">>

\* C19: flatten_array_value returns "" for an empty list and for None, the
\* string form of the first element for a list that is not empty, and the
\* string form of the value otherwise: a string as it is, a number as its
\* digits; str(None) is "None" for a first element.  It never raises and
\* never returns None.
C19_FlattenToString ==
    pc = "called_flatten" =>
        LET value == fnIn[1]
            out == fnOut[1].val[1]
        IN  /\ fnOut[1].ok /\ fnOut[1].val # None
            /\ DOMAIN out = 1..Len(out)
            /\ (value = VList(<<>>) \/ value = VNull) => out = <<>>
            /\ (value.t = "list" /\ value.l # <<>>) =>
                  /\ out = PyStr(value.l[1])
                  /\ value.l[1].t \in {"str", "int"} => out = value.l[1].s
                  /\ value.l[1].t = "null" => out = <<"N","o","n","e">>
            /\ value.t \in {"str", "int"} => out = value.s

C19_Witness ==
    /\ pc = "called_flatten"
    /\ fnIn[1] = VList(<<VInt(7), VStr(<<"x">>)>>)
    /\ fnOut[1].val[1] = <<"7">>

\* C20: when columns and headers differ in length, format prints the
\* mismatch line and raises SystemExit with code 1 whatever the data, the
\* empty list included; it returns no rows.
C20_FormatMismatchExits ==
    pc = "called_format" =>
        LET a == fnIn[1]
            r == fnOut[1]
        IN  Len(a.columns) # Len(a.headers) =>
                /\ ~r.ok /\ r.val = None
                /\ r.exc = SystemExit(1)
                /\ r.err = << <<"(U+2717) ", "Columns (">> \o IntStr(Len(a.columns))
                              \o <<") and headers (">> \o IntStr(Len(a.headers))
                              \o <<") count mismatch">> >>

C20_Witness ==
    /\ pc = "called_format"
    /\ fnIn[1].data = <<>>
    /\ Len(fnIn[1].columns) = 1 /\ Len(fnIn[1].headers) = 2
    /\ fnOut[1].exc = SystemExit(1)
    /\ fnOut[1].val = None
    /\ fnOut[1].err = << <<"(U+2717) ", "Columns (", "1", ") and headers (", "2", ") count mismatch">> >>

\* The string form format gives the value of a column in a record: "" for
\* a missing key and for None.
CellText(record, column) ==
    IF column \notin DOMAIN record \/ record[column] = VNull THEN <<>>
    ELSE IF record[column].t = "str" THEN record[column].s
    ELSE PyRepr(record[column])

\* C21: in the rows format returns every cell has at most 50 characters; a
\* value whose string form is longer than 50 characters becomes its first
\* 47 characters and "...", 50 characters in all, and any other value is
\* kept as its string form.
C21_CellAtMost50 ==
    (pc = "called_format" /\ fnOut[1].ok) =>
        LET a == fnIn[1]
            rows == fnOut[1].val[1]
        IN  \A i \in 1..Len(rows) : \A j \in 1..Len(rows[i]) :
                LET text == CellText(a.data[i], a.columns[j])
                    cell == rows[i][j]
                IN  /\ Len(cell) <= 50
                    /\ Len(text) > 50 =>
                          /\ Len(cell) = 50
                          /\ SubSeq(cell, 1, 47) = SubSeq(text, 1, 47)
                          /\ SubSeq(cell, 48, 50) = <<".", ".", ".">>
                    /\ Len(text) <= 50 => cell = text

C21_Witness ==
    /\ pc = "called_format"
    /\ fnIn[1].data = <<NameKey :> VStr(Chars(51))>>
    /\ fnOut[1].ok
    /\ fnOut[1].val[1] = << <<Chars(47) \o <<".", ".", ".">>>> >>

\* C22: with as many columns as headers, format returns one row for each
\* record, in order, each with one cell for each column, in order; the cell
\* is "" when the record lacks the key or holds None there, and the string
\* form of the value, truncated when longer than 50 characters, otherwise.
C22_FormatRows ==
    pc = "called_format" =>
        LET a == fnIn[1]
            r == fnOut[1]
        IN  Len(a.columns) = Len(a.headers) =>
                /\ r.ok /\ r.err = <<>>
                /\ Len(r.val[1]) = Len(a.data)
                /\ \A i \in 1..Len(a.data) :
                      /\ Len(r.val[1][i]) = Len(a.columns)
                      /\ \A j \in 1..Len(a.columns) :
                            LET text == CellText(a.data[i], a.columns[j])
                            IN  r.val[1][i][j] =
                                   IF Len(text) > 50
                                   THEN SubSeq(text, 1, 47) \o <<".", ".", ".">>
                                   ELSE text

C22_Witness ==
    /\ pc = "called_format"
    /\ fnIn[1].data = << NameKey :> VNull,
                         (FamilyName :> VStr(<<"E","l","i","z">>)) @@ (NameKey :> VStr(<<"A","l">>)) >>
    /\ fnIn[1].columns = <<FamilyName, NameKey>>
    /\ fnOut[1].ok
    /\ fnOut[1].val[1] = << << <<>>, <<>> >>, << <<"E","l","i","z">>, <<"A","l">> >> >>

\* C23: print_table called with an empty list prints the one line "No data
\* available" and returns, whatever the columns and headers (the counts are
\* not compared: format is not called) and whatever the renderer would do
\* (it is not called).
C23_PrintTableEmpty ==
    (pc = "called_print_table" /\ fnIn[1].data = <<>>) =>
        fnOut[1] = Return(<< <<"No data available">> >>)

C23_Witness ==
    /\ pc = "called_print_table"
    /\ fnIn[1].data = <<>>
    /\ Len(fnIn[1].columns) # Len(fnIn[1].headers)
    /\ ~fnIn[1].renders
    /\ fnOut[1].ok
    /\ fnOut[1].val[1] = << <<"No data available">> >>

\* C24: table returns "No data to display" for no rows, whether or not the
\* renderer would raise; for at least one row it returns what the renderer
\* returns, and when the renderer raises it prints one line and raises
\* SystemExit with code 1.
C24_TableRenders ==
    pc = "called_table" =>
        LET a == fnIn[1]
            r == fnOut[1]
        IN  /\ a.data = <<>> => r = Return(<<"No data to display">>)
            /\ (a.data # <<>> /\ a.renders) =>
                  r = Return(Tabulate(a.data, a.headers))
            /\ (a.data # <<>> /\ ~a.renders) =>
                  /\ ~r.ok /\ r.val = None
                  /\ r.exc = SystemExit(1)
                  /\ Len(r.err) = 1
                  /\ SubSeq(r.err[1], 1, 2) = <<"(U+2717) ", "Error formatting table: ">>

C24_Witness ==
    /\ pc = "called_table"
    /\ Len(fnIn[1].data) = 1
    /\ ~fnIn[1].renders
    /\ fnOut[1].exc = SystemExit(1)
    /\ fnOut[1].err = << <<"(U+2717) ", "Error formatting table: ", "tabulate failed">> >>

\* C27: process does not change its input: every record that exists before
\* the call has the same keys and values after it; the records of the
\* result are new objects, one for each input reference, and hold what
\* process returns for the input's values.
C27_InputNotMutated ==
    pc = "called_process_objects" =>
        LET before == fnIn[1].heap
            d == fnIn[1].data
            after == fnOut[1].val[1].heap
            result == fnOut[1].val[1].result
        IN  /\ Len(after) >= Len(before)
            /\ \A i \in 1..Len(before) : after[i] = before[i]
            /\ \A k \in 1..Len(result) : result[k] \notin 1..Len(before)
            /\ \A k, m \in 1..Len(result) : k # m => result[k] # result[m]
            /\ [k \in 1..Len(result) |-> after[result[k]]] =
                  Process(IF d = None THEN None
                          ELSE Some([k \in 1..Len(d[1]) |-> before[d[1][k]]]))

C27_Witness ==
    /\ pc = "called_process_objects"
    /\ fnIn[1].heap = << FamilyName :> VList(<<VStr(<<"E","l","i","z","a","b","e","t","h">>)>>) >>
    /\ fnIn[1].data = Some(<<1, 1>>)
    /\ fnOut[1].val[1].result = <<2, 3>>
    /\ fnOut[1].val[1].heap[1] = fnIn[1].heap[1]
    /\ fnOut[1].val[1].heap[2] = (FamilyName :> VStr(<<"E","l","i","z">>))

=============================================================================
